---------------------------- MODULE Spec2Model ----------------------------
(***************************************************************************)
(* A model of rust-opt-framework: the plan DAG (src/src/plan.rs), the      *)
(* heuristic optimizer and its plan graph (src/src/heuristic/*.rs) and the *)
(* datafusion boundary conversions (src/src/datafusion_poc/*.rs).          *)
(*                                                                         *)
(* Conventions.  Option<T> is a sequence: <<>> is None, <<x>> is Some(x).  *)
(* Rc<PlanNode> is a pointer into a heap: a Plan is [root, nodes] where    *)
(* nodes is a sequence of PlanNode records indexed by pointer, and a       *)
(* node's inputs are pointers.  Two pointers are the same Rc exactly when  *)
(* they are the same number.                                               *)
(***************************************************************************)
EXTENDS Integers, Sequences, FiniteSets, TLC

VARIABLES
    plan,         \* the Plan under consideration (Plan { root })
    \* --- BFSPlanNodeIter (plan.rs:53-57) and what it has returned so far
    visited,      \* HashSet<PlanNodeId>
    cur_level,    \* Vec<PlanNodeRef>
    next_level,   \* Vec<PlanNodeRef>
    yielded,      \* the pointers next() has returned, in order
    enqueued,     \* per call of next(): the inputs it pushed, in push order
    bfs_done,     \* next() has returned None
    \* --- PlanNode::eq (plan.rs:33-41)
    other,        \* the Plan whose root is compared with plan's root
    eq_result,    \* Option<bool>: what plan.root == other.root returned
    \* --- HepOptimizer (optimizer.rs:27-34)
    match_order,    \* MatchOrder
    max_iter_times, \* usize
    rules,          \* Vec<RuleImpl>, by name
    graph,          \* PlanGraph: [graph, root]
    \* --- find_best_plan (optimizer.rs:54-96): where it is and its locals
    pc,             \* "idle", "iter", "node", "rule", "finish", "done"
    times,          \* turns of the outer loop begun
    fixed_point,    \* bool
    node_ids,       \* the rest of this sweep's nodes_iter
    expr_handle,    \* HepNodeId
    rule_idx,       \* position in rules, from 1
    outcome,        \* None while running, then Some(Ok(plan) | Err | Panic)
    \* --- history
    exit_reason,    \* "fixed_point" or "cap": how the outer loop was left
    attempts,       \* the apply_rule builder_calls made, in order
    rep,            \* the last replace_opt_expression call: graph before, origin, new
    first_outcome,  \* None in the first pass, then Some(its outcome)
    \* --- datafusion_poc: a conversion or DFOptimizerAdapterRule::optimize
    df_plan,        \* the datafusion LogicalPlan handed in
    df_stage,       \* "idle", "start", "inbound", "outbound", "optimizing", "optimized"
    df_internal,    \* what PlanNode::try_from(df_plan) returned
    df_result,      \* what LogicalPlan::try_from / optimize returned
    \* --- the builders (plan.rs:186-308, rules/pattern.rs:61-149)
    builder,        \* the builder(s) in use
    heap,           \* the PlanNodes the builders created, in creation order
    returned,       \* what build() / the root finish() returned, in order
    builder_calls   \* the calls made on the builders, in order

bfs_vars == <<visited, cur_level, next_level, yielded, enqueued, bfs_done>>
eq_vars == <<other, eq_result>>
config_vars == <<match_order, max_iter_times, rules>>
loop_vars == <<pc, times, fixed_point, node_ids, expr_handle, rule_idx>>
pass_vars == <<config_vars, graph, loop_vars, outcome, exit_reason, attempts,
               rep, first_outcome>>
df_vars == <<df_plan, df_stage, df_internal, df_result>>
builder_vars == <<builder, heap, returned, builder_calls>>
vars == <<plan, bfs_vars, eq_vars, pass_vars, df_vars, builder_vars>>

(***************************************************************************)
(* Bounds of the model.                                                    *)
(***************************************************************************)
MaxPlanNodes == 3      \* PlanNodes in an input plan
MaxId == 2             \* PlanNode ids are drawn from 0..MaxId where ids are free
MaxIter == 3           \* max_iter_times is drawn from 0..MaxIter
MaxBuilderNodes == 4   \* PlanNodes the builders of one run create at most

None == <<>>
Some(x) == <<x>>
Range(s) == {s[i] : i \in 1..Len(s)}

(***************************************************************************)
(* Each specification below runs one part of the program; the variables of *)
(* the other parts stay as follows.                                        *)
(***************************************************************************)
\* No iterator has been created.
BfsIdle ==
    /\ visited = {}
    /\ cur_level = <<>>
    /\ next_level = <<>>
    /\ yielded = <<>>
    /\ enqueued = <<>>
    /\ bfs_done = FALSE

\* No comparison is under way.
EqIdle ==
    /\ other = None
    /\ eq_result = None

DfIdle ==
    /\ df_plan = None
    /\ df_stage = "idle"
    /\ df_internal = None
    /\ df_result = None

\* No builder has been created.
BuilderIdle ==
    /\ builder = None
    /\ heap = <<>>
    /\ returned = <<>>
    /\ builder_calls = <<>>

PassIdle ==
    /\ match_order = "TopDown"
    /\ max_iter_times = 0
    /\ rules = <<>>
    /\ graph = [graph |-> [weights |-> <<>>, out |-> <<>>, inc |-> <<>>,
                          free |-> <<>>],
                root |-> 0]
    /\ pc = "idle"
    /\ times = 0
    /\ fixed_point = TRUE
    /\ node_ids = <<>>
    /\ expr_handle = 0
    /\ rule_idx = 1
    /\ outcome = None
    /\ exit_reason = None
    /\ attempts = <<>>
    /\ rep = None
    /\ first_outcome = None

(***************************************************************************)
(* Operators (operator/logical.rs, limit.rs, projection.rs, join.rs,       *)
(* table_scan.rs).  Values, compared field by field (derive(PartialEq)).   *)
(***************************************************************************)
\* Expr (datafusion's, re-exported in lib.rs) as far as join conditions use
\* it: columns, binary expressions and the boolean literal.
ExprColumn(column) == [tag |-> "Column", column |-> column]
BinaryExpr(left, op, right) ==
    [tag |-> "BinaryExpr", left |-> left, op |-> op, right |-> right]
Expr_eq(left, right) == BinaryExpr(left, "Eq", right)
and(left, right) == BinaryExpr(left, "And", right)
LiteralTrue == [tag |-> "Literal", value |-> TRUE]

\* The join condition of the joins in the plans below.
EquiCondition == Expr_eq(ExprColumn("t1.a"), ExprColumn("t2.b"))

TableScan_new(table_name) ==
    [tag |-> "LogicalScan", table_name |-> table_name, limit |-> None]
TableScan_with_limit(table_name, l) ==
    [tag |-> "LogicalScan", table_name |-> table_name, limit |-> Some(l)]
Limit_new(l) == [tag |-> "LogicalLimit", limit |-> l]
Projection_new(exprs) == [tag |-> "LogicalProjection", expr |-> exprs]
Join_new(join_type, expr) ==
    [tag |-> "LogicalJoin", join_type |-> join_type, expr |-> expr]

\* The operators an input plan is labelled with, by number of inputs, as the
\* builders of plan.rs create them (scan: none, projection and limit: one,
\* join: two); two variants of each.
OperatorOfArity(n, variant) ==
    CASE n = 0 -> IF variant = 1 THEN TableScan_new("t1")
                  ELSE TableScan_new("t2")
      [] n = 1 -> IF variant = 1 THEN Limit_new(10)
                  ELSE Projection_new(<<"a", "b">>)
      [] OTHER -> IF variant = 1 THEN Join_new("Inner", EquiCondition)
                  ELSE Join_new("Left", EquiCondition)

\* Results: Ok(v), Err(msg) of OptResult, and a panic (unwrap on None, an
\* index out of bounds), which unwinds out of the whole call.
Ok(v) == [kind |-> "Ok", value |-> v]
Err(msg) == [kind |-> "Err", msg |-> msg]
Panic(msg) == [kind |-> "Panic", msg |-> msg]

(***************************************************************************)
(* PlanNode and Plan (plan.rs:23-50, 103-113).                             *)
(***************************************************************************)
PlanNode_new(id, operator, inputs) ==
    [id |-> id, operator |-> operator, inputs |-> inputs,
     logical_prop |-> None, stat |-> None, physical_props |-> None]

Plan_new(root, nodes) == [root |-> root, nodes |-> nodes]

\* The pointers reachable from the pointers in S through inputs.
RECURSIVE ReachableFrom(_, _)
ReachableFrom(nodes, S) ==
    LET more == S \cup UNION {Range(nodes[p].inputs) : p \in S}
    IN  IF more = S THEN S ELSE ReachableFrom(nodes, more)

Reachable(pl) == ReachableFrom(pl.nodes, {pl.root})

\* Input lists of at most two pointers out of S.
InputLists(S) ==
    {<<>>} \cup {<<a>> : a \in S} \cup {<<a, b>> : a \in S, b \in S}

\* The shapes of n nodes whose node k has its inputs among the later
\* pointers (a DAG): the sequences of the input lists of the nodes k..n.
RECURSIVE ShapeTails(_, _)
ShapeTails(k, n) ==
    IF k > n THEN {<<>>}
    ELSE {<<ins>> \o t : ins \in InputLists((k + 1)..n),
                         t \in ShapeTails(k + 1, n)}

\* Every node but the root is an input of an earlier node, hence reachable
\* from the root (pointer 1).
SingleRooted(shape) ==
    \A k \in 2..Len(shape) : \E j \in 1..(k - 1) : k \in Range(shape[j])

Shapes(n) == {s \in ShapeTails(1, n) : SingleRooted(s)}

\* The plan of a shape, node k carrying id ids[k] and the operator variant
\* ops[k] of its arity.
PlanOf(shape, ids, ops) ==
    Plan_new(1, [k \in 1..Len(shape) |->
        PlanNode_new(ids[k], OperatorOfArity(Len(shape[k]), ops[k]), shape[k])])

PlanSizes == 1..MaxPlanNodes

\* Plans of n nodes as PlanNode::new lets a caller build them: any id on any
\* node (the operators are the first variant of each arity).
FreeIdPlans(n) ==
    {PlanOf(s, ids, [k \in 1..n |-> 1]) :
        s \in Shapes(n), ids \in [1..n -> 0..MaxId]}

\* Plans of n nodes with pairwise distinct ids, as one LogicalPlanBuilder
\* hands them out (next_plan_node_id, plan.rs:199-203), with either operator
\* variant on every node.
DistinctIdPlans(n) ==
    {PlanOf(s, [k \in 1..n |-> k - 1], ops) :
        s \in Shapes(n), ops \in [1..n -> 1..2]}

(***************************************************************************)
(* impl PartialEq for PlanNode (plan.rs:32-41).  Vec<Rc<PlanNode>> compares *)
(* lengths, then the pointed-to nodes position by position.                *)
(***************************************************************************)
\* An equality that also compares the ids.
RECURSIVE PlanNode_eq_with_id(_, _, _, _)
PlanNode_eq_with_id(nodes1, p1, nodes2, p2) ==
    LET self == nodes1[p1]
        othr == nodes2[p2]
    IN  /\ self.id = othr.id
        /\ self.operator = othr.operator
        /\ Len(self.inputs) = Len(othr.inputs)
        /\ \A i \in 1..Len(self.inputs) :
               PlanNode_eq_with_id(nodes1, self.inputs[i], nodes2, othr.inputs[i])
        /\ self.logical_prop = othr.logical_prop
        /\ self.stat = othr.stat
        /\ self.physical_props = othr.physical_props

RECURSIVE PlanNode_eq(_, _, _, _)
PlanNode_eq(nodes1, p1, nodes2, p2) ==
    LET self == nodes1[p1]
        othr == nodes2[p2]
    IN  /\ self.operator = othr.operator
        /\ Len(self.inputs) = Len(othr.inputs)
        /\ \A i \in 1..Len(self.inputs) :
               PlanNode_eq(nodes1, self.inputs[i], nodes2, othr.inputs[i])
        /\ self.logical_prop = othr.logical_prop
        /\ self.stat = othr.stat
        /\ self.physical_props = othr.physical_props

\* derive(PartialEq) for Plan (plan.rs:47-50): the roots are compared.
Plan_eq(p, q) == PlanNode_eq(p.nodes, p.root, q.nodes, q.root)

\* The plans plan is compared with: plan itself with other ids (shifted, or
\* one id on every node), and with at most one field of one node changed, or
\* rooted at another of its nodes.
ReIds == {"same", "shifted", "zero"}
FieldChanges ==
    {"none", "operator", "inputs", "logical_prop", "stat", "physical_props",
     "root"}

ReId(node, how) ==
    [node EXCEPT !.id = CASE how = "same" -> @
                          [] how = "shifted" -> @ + MaxPlanNodes
                          [] OTHER -> 0]

Reverse(s) == [i \in 1..Len(s) |-> s[Len(s) + 1 - i]]

ChangeField(node, what) ==
    CASE what = "operator" ->
            [node EXCEPT !.operator =
                IF @ = OperatorOfArity(Len(node.inputs), 1)
                THEN OperatorOfArity(Len(node.inputs), 2)
                ELSE OperatorOfArity(Len(node.inputs), 1)]
      [] what = "inputs" -> [node EXCEPT !.inputs = Reverse(@)]
      [] what = "logical_prop" -> [node EXCEPT !.logical_prop = Some("schema")]
      [] what = "stat" -> [node EXCEPT !.stat = Some("stat")]
      [] what = "physical_props" ->
            [node EXCEPT !.physical_props = Some("props")]
      [] OTHER -> node

Variant(pl, how, what, q) ==
    Plan_new(IF what = "root" THEN q ELSE pl.root,
             [k \in 1..Len(pl.nodes) |->
                 ReId(IF k = q THEN ChangeField(pl.nodes[k], what)
                      ELSE pl.nodes[k], how)])

Variants(pl) ==
    {Variant(pl, how, what, q) :
        how \in ReIds, what \in FieldChanges, q \in 1..Len(pl.nodes)}

SpecEqInit ==
    /\ \E n \in PlanSizes : plan \in DistinctIdPlans(n)
    /\ other \in {Some(v) : v \in Variants(plan)}
    /\ eq_result = None
    /\ BfsIdle
    /\ PassIdle
    /\ DfIdle
    /\ BuilderIdle

\* plan.root() == other.root()
Compare ==
    /\ eq_result = None
    /\ eq_result' = Some(PlanNode_eq(plan.nodes, plan.root,
                                     other[1].nodes, other[1].root))
    /\ UNCHANGED <<plan, other, bfs_vars, pass_vars, df_vars, builder_vars>>

SpecEq == SpecEqInit /\ [][Compare]_vars

(***************************************************************************)
(* Plan::bfs_iterator and BFSPlanNodeIter::next (plan.rs:59-100).          *)
(***************************************************************************)
\* The loop over p.inputs of next(): the state <<visited, next_level>> after
\* the inputs from position i on.
RECURSIVE PushInputs(_, _, _, _, _)
PushInputs(nodes, inputs, i, vis, nxt) ==
    IF i > Len(inputs) THEN <<vis, nxt>>
    ELSE LET input == inputs[i] IN
         IF nodes[input].id \notin vis
         THEN PushInputs(nodes, inputs, i + 1,
                         vis \cup {nodes[input].id}, Append(nxt, input))
         ELSE PushInputs(nodes, inputs, i + 1, vis, nxt)

\* A pop that takes the first element instead (a queue).
PopFront(level) == <<level[1], SubSeq(level, 2, Len(level))>>

\* Vec::pop takes the last element.
PopBack(level) == <<level[Len(level)], SubSeq(level, 1, Len(level) - 1)>>

BfsInit ==
    /\ visited = {plan.nodes[plan.root].id}
    /\ cur_level = <<plan.root>>
    /\ next_level = <<>>
    /\ yielded = <<>>
    /\ enqueued = <<>>
    /\ bfs_done = FALSE

BFSPlanNodeIter_next ==
    LET swapped == cur_level = <<>>
        cur == IF swapped THEN next_level ELSE cur_level
        nxt == IF swapped THEN <<>> ELSE next_level
    IN  IF cur # <<>>
        THEN LET popped == PopBack(cur)
                 p == popped[1]
                 pushed == PushInputs(plan.nodes, plan.nodes[p].inputs, 1,
                                      visited, nxt)
             IN  /\ cur_level' = popped[2]
                 /\ visited' = pushed[1]
                 /\ next_level' = pushed[2]
                 /\ yielded' = Append(yielded, p)
                 /\ enqueued' = Append(enqueued,
                        SubSeq(pushed[2], Len(nxt) + 1, Len(pushed[2])))
                 /\ bfs_done' = FALSE
        ELSE /\ cur_level' = cur
             /\ next_level' = nxt
             /\ bfs_done' = TRUE
             /\ UNCHANGED <<visited, yielded, enqueued>>

BfsNext ==
    /\ ~bfs_done
    /\ BFSPlanNodeIter_next
    /\ UNCHANGED <<plan, eq_vars, pass_vars, df_vars, builder_vars>>

SpecBfsInit ==
    /\ \E n \in PlanSizes : plan \in FreeIdPlans(n)
    /\ BfsInit
    /\ EqIdle
    /\ PassIdle
    /\ DfIdle
    /\ BuilderIdle

SpecBfs == SpecBfsInit /\ [][BfsNext]_vars

(***************************************************************************)
(* petgraph's StableGraph as heuristic/graph.rs uses it (HepGraph,         *)
(* graph.rs:18-19).  weights[i] is the Option<HepOptimizerNode> in slot i  *)
(* (None: vacant), out[i] the targets of the edges leaving i in the order  *)
(* neighbors_directed(i, Outgoing) yields them, inc[i] the sources of the  *)
(* edges entering i in the order neighbors_directed(i, Incoming) yields    *)
(* them, free the vacant slots, the next one to be occupied first.         *)
(* Indices start at 0.                                                     *)
(***************************************************************************)
HepGraph_default ==
    [weights |-> <<>>, out |-> <<>>, inc |-> <<>>, free |-> <<>>]

NodeBound(g) == Cardinality(DOMAIN g.weights)
NodeIds(g) == {i \in DOMAIN g.weights : g.weights[i] # None}
contains_node(g, a) == a \in NodeIds(g)

\* add_node occupies the most recently vacated slot, else a new one at the
\* end; <<graph, index>>.
add_node(g, weight) ==
    IF g.free # <<>>
    THEN LET idx == Head(g.free)
         IN  <<[g EXCEPT !.weights[idx] = Some(weight), !.free = Tail(@)],
               idx>>
    ELSE LET idx == NodeBound(g)
         IN  <<[weights |-> [i \in 0..idx |->
                                IF i = idx THEN Some(weight) ELSE g.weights[i]],
                out |-> [i \in 0..idx |-> IF i = idx THEN <<>> ELSE g.out[i]],
                inc |-> [i \in 0..idx |-> IF i = idx THEN <<>> ELSE g.inc[i]],
                free |-> g.free],
               idx>>

\* add_edge links the new edge at the head of a's list of outgoing edges and
\* of b's list of incoming edges, so the neighbours of a node come in the
\* reverse of the order its edges were added in.
add_edge(g, a, b) ==
    [weights |-> g.weights,
     out |-> [i \in DOMAIN g.out |-> IF i = a THEN <<b>> \o g.out[i] ELSE g.out[i]],
     inc |-> [i \in DOMAIN g.inc |-> IF i = b THEN <<a>> \o g.inc[i] ELSE g.inc[i]],
     free |-> g.free]

Without(s, a) == SelectSeq(s, LAMBDA x : x # a)

\* A removal that leaves the node and its edges where they are.
LeaveNode(g, a) == g

\* remove_node drops the weight and every edge from or to a (the other edges
\* keep their order) and puts the slot at the head of the free list.
remove_node(g, a) ==
    [weights |-> [g.weights EXCEPT ![a] = None],
     out |-> [i \in DOMAIN g.out |-> IF i = a THEN <<>> ELSE Without(g.out[i], a)],
     inc |-> [i \in DOMAIN g.inc |-> IF i = a THEN <<>> ELSE Without(g.inc[i], a)],
     free |-> <<a>> \o g.free]

neighbors_outgoing(g, a) == g.out[a]

\* neighbors_directed(a, Incoming): one entry per edge into a, the newest
\* edge first.
neighbors_incoming(g, a) == g.inc[a]

Parents(g, a) == {i \in DOMAIN g.out : a \in Range(g.out[i])}

\* petgraph::visit::Bfs from start: a queue, each node discovered once, the
\* successors of a node enqueued in neighbors() order.
RECURSIVE EnqueueNew(_, _, _, _)
EnqueueNew(succs, i, discovered, queue) ==
    IF i > Len(succs) THEN <<discovered, queue>>
    ELSE IF succs[i] \in discovered
         THEN EnqueueNew(succs, i + 1, discovered, queue)
         ELSE EnqueueNew(succs, i + 1, discovered \cup {succs[i]},
                         Append(queue, succs[i]))

RECURSIVE BfsFrom(_, _, _, _)
BfsFrom(g, queue, discovered, ids) ==
    IF queue = <<>> THEN ids
    ELSE LET node == Head(queue)
             step == EnqueueNew(g.out[node], 1, discovered, Tail(queue))
         IN  BfsFrom(g, step[2], step[1], Append(ids, node))

Bfs(g, start) == BfsFrom(g, <<start>>, {start}, <<>>)

(***************************************************************************)
(* PlanGraph (graph.rs:29-33): [graph, root].                              *)
(***************************************************************************)
\* impl From<&PlanNode> for HepOptimizerNode (graph.rs:203-213); the id is
\* reset to the node's index right after add_node.
HepOptimizerNode_from(t, id) ==
    [id |-> id, operator |-> t.operator, logical_prop |-> t.logical_prop,
     stat |-> t.stat, physical_props |-> t.physical_props]

\* The traversal Plan::bfs_iterator makes of pl: the pointers in yield order.
RECURSIVE BfsIterate(_, _, _, _, _)
BfsIterate(nodes, vis, cur, nxt, acc) ==
    LET c == IF cur = <<>> THEN nxt ELSE cur
        n == IF cur = <<>> THEN <<>> ELSE nxt
    IN  IF c = <<>> THEN acc
        ELSE LET popped == PopBack(c)
                 pushed == PushInputs(nodes, nodes[popped[1]].inputs, 1, vis, n)
             IN  BfsIterate(nodes, pushed[1], popped[2], pushed[2],
                            Append(acc, popped[1]))

bfs_iterator(pl) ==
    BfsIterate(pl.nodes, {pl.nodes[pl.root].id}, <<pl.root>>, <<>>, <<>>)

\* The first loop of from (graph.rs:173-184): one graph node per yielded
\* PlanNode, in yield order.
RECURSIVE AddPlanNodes(_, _, _, _)
AddPlanNodes(pl, order, i, g) ==
    IF i > Len(order) THEN g
    ELSE LET added == add_node(g, HepOptimizerNode_from(pl.nodes[order[i]], i - 1))
         IN  AddPlanNodes(pl, order, i + 1, added[1])

\* node_id_map: the graph node of the yielded PlanNode that carries this id.
NodeIdMap(pl, order, id) ==
    (CHOOSE i \in 1..Len(order) : pl.nodes[order[i]].id = id) - 1

\* The second loop (graph.rs:186-194): for each yielded node, in the order
\* of its inputs, an edge to the graph node its input's id maps to.  The
\* HashMap parents hands its keys out in an order of its own: keys is that
\* order, as positions in the yield order.
RECURSIVE AddInputEdges(_, _, _, _, _)
AddInputEdges(pl, order, from, j, g) ==
    LET inputs == pl.nodes[order[from]].inputs IN
    IF j > Len(inputs) THEN g
    ELSE AddInputEdges(pl, order, from, j + 1,
            add_edge(g, from - 1, NodeIdMap(pl, order, pl.nodes[inputs[j]].id)))

RECURSIVE AddPlanEdges(_, _, _, _, _)
AddPlanEdges(pl, order, keys, i, g) ==
    IF i > Len(keys) THEN g
    ELSE AddPlanEdges(pl, order, keys, i + 1,
                      AddInputEdges(pl, order, keys[i], 1, g))

\* The keys of parents: the yielded nodes that have inputs, as positions in
\* the yield order.
ParentKeys(pl) ==
    LET order == bfs_iterator(pl)
    IN  {i \in 1..Len(order) : pl.nodes[order[i]].inputs # <<>>}

\* The orders in which the HashMap can hand out its keys.
KeyOrders(pl) ==
    LET n == Cardinality(ParentKeys(pl))
    IN  {keys \in [1..n -> ParentKeys(pl)] :
            \A i, j \in 1..n : i # j => keys[i] # keys[j]}

\* A from that adds the graph nodes while walking the HashMap, so that a
\* node's index is its place in the order of the keys (the nodes without
\* inputs, which are no keys, after them).
PlanGraph_from_hashed_nodes(pl, keys) ==
    LET yield == bfs_iterator(pl)
        order == [i \in 1..Len(keys) |-> yield[keys[i]]]
                   \o SelectSeq(yield, LAMBDA p : pl.nodes[p].inputs = <<>>)
        g == AddPlanEdges(pl, order, [i \in 1..Len(order) |-> i], 1,
                          AddPlanNodes(pl, order, 1, HepGraph_default))
    IN  [graph |-> g, root |-> NodeIdMap(pl, order, pl.nodes[pl.root].id)]

\* impl From<Plan> for PlanGraph (graph.rs:167-201), the HashMap handing out
\* its keys in the order keys.
PlanGraph_from_keys(pl, keys) ==
    LET order == bfs_iterator(pl)
        g == AddPlanEdges(pl, order, keys, 1,
                          AddPlanNodes(pl, order, 1, HepGraph_default))
    IN  [graph |-> g, root |-> NodeIdMap(pl, order, pl.nodes[pl.root].id)]

\* The same with the keys in yield order.  A node's own edges are added in
\* input order whatever the order of the keys, and they alone decide its out
\* list; the order of the keys shows in the inc lists only.
PlanGraph_from(pl) ==
    PlanGraph_from_keys(pl, [i \in 1..Len(bfs_iterator(pl)) |-> i])

\* bottom_up_node_iters and top_down_node_iters (graph.rs:111-135).
top_down_node_iters(pg) == Bfs(pg.graph, pg.root)
bottom_up_node_iters(pg) == Reverse(Bfs(pg.graph, pg.root))

\* nodes_iter (graph.rs:36-44).
nodes_iter(pg, order) ==
    IF order = "TopDown" THEN top_down_node_iters(pg)
    ELSE bottom_up_node_iters(pg)

\* to_plan (graph.rs:137-163).  The PlanNode made for the i-th node of the
\* bottom-up order is pointer i; every PlanNode gets id next_plan_node_id,
\* which stays 1.  get(..).unwrap() panics on a child that is not in the map
\* yet.
next_plan_node_id == 1

IndexIn(order, x) == CHOOSE i \in 1..Len(order) : order[i] = x

RECURSIVE MaterializeFrom(_, _, _, _)
MaterializeFrom(pg, order, i, nodes) ==
    IF i > Len(order) THEN Ok(nodes)
    ELSE LET node_id == order[i]
             node == pg.graph.weights[node_id][1]
             children == neighbors_outgoing(pg.graph, node_id)
         IN  IF \E c \in Range(children) :
                   ~\E k \in 1..(i - 1) : order[k] = c
             THEN Panic("unwrap on None")
             ELSE MaterializeFrom(pg, order, i + 1, Append(nodes,
                    [id |-> next_plan_node_id,
                     operator |-> node.operator,
                     inputs |-> [j \in 1..Len(children) |->
                                    IndexIn(order, children[j])],
                     logical_prop |-> node.logical_prop,
                     stat |-> node.stat,
                     physical_props |-> node.physical_props]))

to_plan(pg) ==
    LET order == bottom_up_node_iters(pg)
        built == MaterializeFrom(pg, order, 1, <<>>)
    IN  IF built.kind = "Ok"
        THEN Ok(Plan_new(IndexIn(order, pg.root), built.value))
        ELSE built

(***************************************************************************)
(* OptExpression: a node (OperatorNode with an operator, ExprHandleNode or  *)
(* GroupHandleNode with a handle) and its input OptExpressions.            *)
(***************************************************************************)
OperatorNode(operator) == [tag |-> "OperatorNode", operator |-> operator]
ExprHandleNode(handle) == [tag |-> "ExprHandleNode", handle |-> handle]
GroupHandleNode(handle) == [tag |-> "GroupHandleNode", handle |-> handle]
OptExpression_new(node, inputs) == [node |-> node, inputs |-> inputs]
OptExpression_with_operator(operator, inputs) ==
    OptExpression_new(OperatorNode(operator), inputs)
OptExpression_with_expr_handle(handle) ==
    OptExpression_new(ExprHandleNode(handle), <<>>)

expr_at(pg, handle) == pg.graph.weights[handle][1]

\* OptExpr for HepOptimizerNode (graph.rs:218-238).
inputs_len(pg, node) == Len(neighbors_outgoing(pg.graph, node.id))
input_at(pg, node, idx) == neighbors_outgoing(pg.graph, node.id)[idx + 1]

RECURSIVE AddEdgesTo(_, _, _, _)
AddEdgesTo(g, from, targets, i) ==
    IF i > Len(targets) THEN g
    ELSE AddEdgesTo(add_edge(g, from, targets[i]), from, targets, i + 1)

\* A handle answered by a copy of the node it points to.
CopyHandle(pg, handle) ==
    LET added == add_node(pg.graph, pg.graph.weights[handle][1])
    IN  <<[graph |-> added[1], root |-> pg.root], added[2]>>

\* `ExprHandleNode(expr_handle) => *expr_handle` and the same for a group
\* handle (graph.rs:80-81): the node the handle points to, the graph as it is.
ReuseHandle(pg, handle) == <<pg, handle>>

\* insert_opt_node (graph.rs:78-109): <<PlanGraph, HepNodeId>>.  A handle is
\* returned as it is; an operator node is added after its inputs, its id set
\* to its index, with one edge to each input in input order.
RECURSIVE insert_opt_node(_, _)
RECURSIVE InsertInputs(_, _, _, _)
InsertInputs(pg, inputs, i, ids) ==
    IF i > Len(inputs) THEN <<pg, ids>>
    ELSE LET r == insert_opt_node(pg, inputs[i])
         IN  InsertInputs(r[1], inputs, i + 1, Append(ids, r[2]))

insert_opt_node(pg, opt_expr) ==
    IF opt_expr.node.tag \in {"ExprHandleNode", "GroupHandleNode"}
    THEN ReuseHandle(pg, opt_expr.node.handle)
    ELSE LET ins == InsertInputs(pg, opt_expr.inputs, 1, <<>>)
             input_hep_node_ids == ins[2]
             added == add_node(ins[1].graph,
                               [id |-> 0,
                                operator |-> opt_expr.node.operator,
                                logical_prop |-> None, stat |-> None,
                                physical_props |-> None])
             new_node_id == added[2]
             reset == [added[1] EXCEPT !.weights[new_node_id] =
                          Some([@[1] EXCEPT !.id = new_node_id])]
         IN  <<[graph |-> AddEdgesTo(reset, new_node_id, input_hep_node_ids, 1),
                root |-> pg.root],
               new_node_id>>

\* A replacement that leaves origin's parents as they are.
KeepParents(g, parent_node_ids, new_hep_node_id, i) == g

\* `for parent in parent_node_ids { add_edge(parent, new_hep_node_id) }`
RECURSIVE RedirectParents(_, _, _, _)
RedirectParents(g, parent_node_ids, new_hep_node_id, i) ==
    IF i > Len(parent_node_ids) THEN g
    ELSE RedirectParents(add_edge(g, parent_node_ids[i], new_hep_node_id),
                         parent_node_ids, new_hep_node_id, i + 1)

\* replace_opt_expression (graph.rs:51-76): [pg, new, changed].
replace_opt_expression(pg, opt_node, origin_node_id) ==
    LET ins == insert_opt_node(pg, opt_node)
        new_hep_node_id == ins[2]
        parent_node_ids == neighbors_incoming(ins[1].graph, origin_node_id)
        redirected == RedirectParents(ins[1].graph, parent_node_ids,
                                      new_hep_node_id, 1)
    IN  IF new_hep_node_id # origin_node_id
        THEN [pg |-> [graph |-> remove_node(redirected, origin_node_id),
                      root |-> IF pg.root = origin_node_id
                               THEN new_hep_node_id ELSE pg.root],
              new |-> new_hep_node_id, changed |-> TRUE]
        ELSE [pg |-> ins[1], new |-> new_hep_node_id, changed |-> FALSE]

(***************************************************************************)
(* Patterns (rules/pattern.rs), the binding of a pattern at a handle and   *)
(* the rewrite rules a pass is given.                                      *)
(***************************************************************************)
OperatorMatchers == {"any", "is_scan", "is_limit", "is_projection", "is_join"}

Matches(predict, operator) ==
    CASE predict = "any" -> TRUE
      [] predict = "is_scan" -> operator.tag = "LogicalScan"
      [] predict = "is_limit" -> operator.tag = "LogicalLimit"
      [] predict = "is_projection" -> operator.tag = "LogicalProjection"
      [] predict = "is_join" -> operator.tag = "LogicalJoin"

Pattern_new_leaf(matcher) == [predict |-> matcher, children |-> None]
Pattern_new(matcher, children) ==
    [predict |-> matcher,
     children |-> IF Len(children) > 0 THEN Some(children) ELSE None]

\* Binding::new(expr_handle, pattern, optimizer).next(): the first bound
\* OptExpression, None when the pattern does not match.  At most one
\* expression sits at a handle of the heuristic graph, so the first binding
\* is the only one.
RECURSIVE Binding_next(_, _, _)
Binding_next(pg, handle, pattern) ==
    LET node == expr_at(pg, handle) IN
    IF ~Matches(pattern.predict, node.operator) THEN None
    ELSE IF pattern.children = None
    THEN Some(OptExpression_with_expr_handle(handle))
    ELSE LET child_patterns == pattern.children[1] IN
         IF inputs_len(pg, node) # Len(child_patterns) THEN None
         ELSE LET bound == [i \in 1..Len(child_patterns) |->
                              Binding_next(pg, input_at(pg, node, i - 1),
                                           child_patterns[i])]
              IN  IF \E i \in 1..Len(bound) : bound[i] = None THEN None
                  ELSE Some(OptExpression_with_operator(node.operator,
                              [i \in 1..Len(bound) |-> bound[i][1]]))

RuleNames ==
    {"noop", "identity", "remove_projection", "push_limit_to_scan",
     "two_results", "failing", "refresh_scan", "wrap_scan"}

Rule_pattern(rule) ==
    CASE rule = "noop" -> Pattern_new_leaf("any")
      [] rule = "identity" -> Pattern_new_leaf("any")
      [] rule = "remove_projection" ->
            Pattern_new("is_projection", <<Pattern_new_leaf("is_scan")>>)
      [] rule = "push_limit_to_scan" ->
            Pattern_new("is_limit", <<Pattern_new_leaf("is_scan")>>)
      [] rule = "two_results" ->
            Pattern_new("is_limit", <<Pattern_new_leaf("any")>>)
      [] rule = "failing" -> Pattern_new_leaf("is_join")
      [] rule = "refresh_scan" -> Pattern_new_leaf("is_scan")
      [] rule = "wrap_scan" -> Pattern_new_leaf("is_scan")

\* rule.apply(opt_node, optimizer, &mut results): Ok(results) or Err.
Rule_apply(rule, opt_node, pg) ==
    CASE rule = "noop" -> Ok(<<>>)
      [] rule = "identity" -> Ok(<<opt_node>>)
      [] rule = "remove_projection" -> Ok(<<opt_node.inputs[1]>>)
      [] rule = "push_limit_to_scan" ->
            Ok(<<OptExpression_with_operator(
                    TableScan_with_limit(
                        expr_at(pg, opt_node.inputs[1].node.handle)
                            .operator.table_name,
                        opt_node.node.operator.limit),
                    <<>>)>>)
      [] rule = "two_results" ->
            Ok(<<opt_node.inputs[1],
                 OptExpression_with_operator(opt_node.node.operator,
                                             opt_node.inputs)>>)
      [] rule = "failing" -> Err("rule failed")
      [] rule = "refresh_scan" ->
            Ok(<<OptExpression_with_operator(
                    expr_at(pg, opt_node.node.handle).operator, <<>>)>>)
      [] rule = "wrap_scan" ->
            Ok(<<OptExpression_with_operator(Limit_new(10), <<opt_node>>)>>)

RuleLists ==
    {<<>>, <<"noop">>, <<"identity">>, <<"remove_projection">>,
     <<"push_limit_to_scan">>,
     <<"remove_projection", "push_limit_to_scan">>,
     <<"noop", "push_limit_to_scan", "remove_projection">>,
     <<"two_results">>, <<"failing">>, <<"noop", "failing">>,
     <<"refresh_scan">>, <<"wrap_scan">>}

\* An apply_rule that takes a rule's error for "no transformation".
SkipFailedRule(call, err) == [call EXCEPT !.bound = TRUE]

\* `rule.apply(opt_node, self, &mut results)?`: apply_rule returns the rule's
\* error.
ReturnRuleError(call, err) == [call EXCEPT !.result = err, !.bound = TRUE]

\* apply_rule (optimizer.rs:116-137): [result, pg, bound, failed, results,
\* new, expr], with bound: the pattern matched, failed: the rule's apply
\* returned an error, results: how many replacements it returned, expr: the
\* one handed to replace_opt_expression.  The loop over the
\* results returns in its first turn, with idx = 0.
apply_rule(pg, rule, handle) ==
    LET original_hep_node_id == handle
        binding == Binding_next(pg, handle, Rule_pattern(rule))
        idle == [result |-> Ok(FALSE), pg |-> pg, bound |-> FALSE,
                 failed |-> FALSE, results |-> 0, new |-> None,
                 expr |-> None]
    IN  IF binding = None THEN idle
        ELSE LET applied == Rule_apply(rule, binding[1], pg) IN
             IF applied.kind = "Err"
             THEN ReturnRuleError([idle EXCEPT !.failed = TRUE], applied)
             ELSE IF applied.value = <<>>
             THEN [idle EXCEPT !.bound = TRUE]
             ELSE LET idx == 0
                      replaced == replace_opt_expression(
                                      pg, applied.value[idx + 1],
                                      original_hep_node_id)
                  IN  IF ~(idx < 1)
                      THEN [idle EXCEPT
                              !.result = Err("Rewrite rule should not return no more than 1 result."),
                              !.bound = TRUE,
                              !.results = Len(applied.value)]
                      ELSE [result |-> Ok(replaced.changed),
                            pg |-> replaced.pg, bound |-> TRUE,
                            failed |-> FALSE,
                            results |-> Len(applied.value),
                            new |-> Some(replaced.new),
                            expr |-> Some(applied.value[idx + 1])]

(***************************************************************************)
(* HepOptimizer::new and find_best_plan (optimizer.rs:54-114), one action  *)
(* per step of the loops.                                                  *)
(***************************************************************************)
MatchOrders == {"TopDown", "BottomUp"}

\* The plans a pass is given: ids as the builder hands them out, unary nodes
\* limits or projections, leaves and joins alternating between their variants.
PassOps(shape, ops) ==
    [k \in 1..Len(shape) |-> IF Len(shape[k]) = 1 THEN ops[k] ELSE 1 + (k % 2)]

PassPlans(n) ==
    {PlanOf(s, [k \in 1..n |-> k - 1], PassOps(s, ops)) :
        s \in Shapes(n), ops \in [1..n -> 1..2]}

\* A range that has one turn more.
InRangeInclusive(t, max) == t <= max

\* `for _times in 0..self.max_iter_times`: whether another turn is left.
InRange(t, max) == t < max

HepOptimizer_new(order, max, rule_list, pl) ==
    /\ match_order = order
    /\ max_iter_times = max
    /\ rules = rule_list
    /\ graph = PlanGraph_from(pl)

SpecInit ==
    /\ \E n \in PlanSizes : plan \in PassPlans(n)
    /\ \E order \in MatchOrders, max \in 0..MaxIter, rule_list \in RuleLists :
          HepOptimizer_new(order, max, rule_list, plan)
    /\ pc = "iter"
    /\ times = 0
    /\ fixed_point = TRUE
    /\ node_ids = <<>>
    /\ expr_handle = 0
    /\ rule_idx = 1
    /\ outcome = None
    /\ exit_reason = None
    /\ attempts = <<>>
    /\ rep = None
    /\ first_outcome = None
    /\ BfsIdle
    /\ EqIdle
    /\ DfIdle
    /\ BuilderIdle

untouched == <<plan, bfs_vars, eq_vars, config_vars, first_outcome, df_vars,
               builder_vars>>

\* The outer loop takes its next turn: fixed_point = true, node_ids collected.
StartIteration ==
    /\ pc = "iter"
    /\ InRange(times, max_iter_times)
    /\ times' = times + 1
    /\ fixed_point' = TRUE
    /\ node_ids' = nodes_iter(graph, match_order)
    /\ pc' = "node"
    /\ UNCHANGED <<untouched, graph, expr_handle, rule_idx, outcome,
                   exit_reason, attempts, rep>>

\* The range is used up.
RangeExhausted ==
    /\ pc = "iter"
    /\ ~InRange(times, max_iter_times)
    /\ pc' = "finish"
    /\ exit_reason' = Some("cap")
    /\ UNCHANGED <<untouched, graph, times, fixed_point, node_ids,
                   expr_handle, rule_idx, outcome, attempts, rep>>

\* `for node_id in node_ids`: the next node, rules from the first.
NextNode ==
    /\ pc = "node"
    /\ node_ids # <<>>
    /\ expr_handle' = Head(node_ids)
    /\ node_ids' = Tail(node_ids)
    /\ rule_idx' = 1
    /\ pc' = "rule"
    /\ UNCHANGED <<untouched, graph, times, fixed_point, outcome,
                   exit_reason, attempts, rep>>

\* The sweep went over every node and nothing fired: `if fixed_point { break }`.
SweepDone ==
    /\ pc = "node"
    /\ node_ids = <<>>
    /\ pc' = "finish"
    /\ exit_reason' = Some("fixed_point")
    /\ UNCHANGED <<untouched, graph, times, fixed_point, node_ids,
                   expr_handle, rule_idx, outcome, attempts, rep>>

\* A sweep that, after a firing, leaves the rule loop alone and goes on with
\* its next node.
BreakRuleLoopOnly(changed) == IF changed THEN "node" ELSE "rule"

\* A sweep that, after a rule that changed nothing, goes on with its next
\* node.
NextNodeAfterMiss(changed) == IF changed THEN "iter" ELSE "node"

\* `fixed_point = false; break;` and `if !fixed_point { break; }`
\* (optimizer.rs:74-75, 85-87): after a firing both inner loops are left,
\* otherwise the rule loop goes on.
AfterRule(changed) == IF changed THEN "iter" ELSE "rule"

Attempt(handle, rule, applied) ==
    [handle |-> handle, rule |-> rule, bound |-> applied.bound,
     failed |-> applied.failed, results |-> applied.results,
     result |-> applied.result]

\* One turn of `for rule in rules`: apply_rule, then `?`, then either the
\* println of to_plan() and the break out of both inner loops, or the next
\* rule.
TryRule ==
    /\ pc = "rule"
    /\ rule_idx <= Len(rules)
    /\ LET applied == apply_rule(graph, rules[rule_idx], expr_handle)
           shown == to_plan(applied.pg)
       IN  /\ attempts' = Append(attempts,
                                 Attempt(expr_handle, rules[rule_idx], applied))
           /\ graph' = applied.pg
           /\ rep' = IF applied.new = None THEN rep
                     ELSE Some([before |-> graph, origin |-> expr_handle,
                                new |-> applied.new[1],
                                changed |-> applied.result.value,
                                expr |-> applied.expr[1]])
           /\ IF applied.result.kind = "Err"
              THEN /\ outcome' = Some(applied.result)
                   /\ pc' = "done"
                   /\ UNCHANGED <<fixed_point, rule_idx>>
              ELSE IF applied.result.value
              THEN IF shown.kind = "Panic"
                   THEN /\ outcome' = Some(shown)
                        /\ pc' = "done"
                        /\ UNCHANGED <<fixed_point, rule_idx>>
                   ELSE /\ fixed_point' = FALSE
                        /\ pc' = AfterRule(TRUE)
                        /\ UNCHANGED <<outcome, rule_idx>>
              ELSE /\ rule_idx' = rule_idx + 1
                   /\ pc' = AfterRule(FALSE)
                   /\ UNCHANGED <<outcome, fixed_point>>
    /\ UNCHANGED <<untouched, times, node_ids, expr_handle, exit_reason>>

\* No rule fired on this node.
RulesExhausted ==
    /\ pc = "rule"
    /\ rule_idx > Len(rules)
    /\ pc' = "node"
    /\ UNCHANGED <<untouched, graph, times, fixed_point, node_ids,
                   expr_handle, rule_idx, outcome, exit_reason, attempts, rep>>

\* Ok(self.graph.to_plan())
Finish ==
    /\ pc = "finish"
    /\ outcome' = Some(to_plan(graph))
    /\ pc' = "done"
    /\ UNCHANGED <<untouched, graph, times, fixed_point, node_ids,
                   expr_handle, rule_idx, exit_reason, attempts, rep>>

\* The caller hands the plan a pass returned to a new optimizer with the same
\* match order, iteration cap and rules.
SecondPass ==
    /\ pc = "done"
    /\ first_outcome = None
    /\ outcome # None
    /\ outcome[1].kind = "Ok"
    /\ first_outcome' = Some([outcome |-> outcome[1],
                              exit_reason |-> exit_reason[1],
                              times |-> times])
    /\ graph' = PlanGraph_from(outcome[1].value)
    /\ pc' = "iter"
    /\ times' = 0
    /\ fixed_point' = TRUE
    /\ node_ids' = <<>>
    /\ expr_handle' = 0
    /\ rule_idx' = 1
    /\ outcome' = None
    /\ exit_reason' = None
    /\ attempts' = <<>>
    /\ rep' = None
    /\ UNCHANGED <<plan, bfs_vars, eq_vars, config_vars, df_vars,
                   builder_vars>>

Next ==
    \/ StartIteration
    \/ RangeExhausted
    \/ NextNode
    \/ SweepDone
    \/ TryRule
    \/ RulesExhausted
    \/ Finish
    \/ SecondPass

Spec == SpecInit /\ [][Next]_vars

(***************************************************************************)
(* Two runs of find_best_plan, one after the other: the first on plan, the *)
(* second on other, a plan that compares equal to plan, with the same       *)
(* match order, iteration cap and rules.                                   *)
(***************************************************************************)
\* The tree under pointer p with no node shared: <<nodes, next>>, the nodes
\* of the copy made of p's subtree, its root first and at pointer base + 1,
\* every node with an id of its own.
RECURSIVE UnshareAt(_, _, _)
RECURSIVE UnshareInputs(_, _, _, _, _, _)
UnshareInputs(nodes, inputs, i, base, copied, ptrs) ==
    IF i > Len(inputs) THEN <<copied, ptrs>>
    ELSE LET sub == UnshareAt(nodes, inputs[i], base + Len(copied))
         IN  UnshareInputs(nodes, inputs, i + 1, base, copied \o sub,
                           Append(ptrs, base + Len(copied) + 1))

UnshareAt(nodes, p, base) ==
    LET below == UnshareInputs(nodes, nodes[p].inputs, 1, base + 1, <<>>, <<>>)
    IN  <<[nodes[p] EXCEPT !.id = base, !.inputs = below[2]]>> \o below[1]

Unshared(pl) == Plan_new(1, UnshareAt(pl.nodes, pl.root, 0))

\* The plans the second run is given: plan with other ids (shifted, or one
\* id on every node) and plan with a copy of its own of every shared node,
\* where that makes at most two nodes more than the largest plan has.
TwinsOf(pl) ==
    {Variant(pl, how, "none", 1) : how \in ReIds}
      \cup {q \in {Unshared(pl)} : Len(q.nodes) <= MaxPlanNodes + 2}

\* The rule lists of the two runs: rules that take nodes out, a rule that
\* fires in every sweep, one that adds nodes and one that fails.
TwinRuleLists ==
    {<<"remove_projection", "push_limit_to_scan">>, <<"refresh_scan">>,
     <<"wrap_scan">>, <<"noop", "failing">>}

\* The first run's HashMap hands out its keys in yield order, the second
\* run's in any order.
SpecTwinInit ==
    /\ \E n \in PlanSizes : \E pl \in PassPlans(n) :
          plan \in {pl, Variant(pl, "zero", "none", 1)}
    /\ other \in {Some(q) : q \in TwinsOf(plan)}
    /\ eq_result = None
    /\ \E order \in MatchOrders, rule_list \in TwinRuleLists :
          HepOptimizer_new(order, MaxIter - 1, rule_list, plan)
    /\ pc = "iter"
    /\ times = 0
    /\ fixed_point = TRUE
    /\ node_ids = <<>>
    /\ expr_handle = 0
    /\ rule_idx = 1
    /\ outcome = None
    /\ exit_reason = None
    /\ attempts = <<>>
    /\ rep = None
    /\ first_outcome = None
    /\ BfsIdle
    /\ DfIdle
    /\ BuilderIdle

\* The first run is over: HepOptimizer::new on other with the same match
\* order, iteration cap and rules, and find_best_plan again.
TwinPass ==
    /\ pc = "done"
    /\ other # None
    /\ first_outcome = None
    /\ first_outcome' = Some([outcome |-> outcome[1],
                              exit_reason |-> exit_reason,
                              times |-> times,
                              attempts |-> attempts])
    /\ \E keys \in KeyOrders(other[1]) :
          graph' = PlanGraph_from_keys(other[1], keys)
    /\ pc' = "iter"
    /\ times' = 0
    /\ fixed_point' = TRUE
    /\ node_ids' = <<>>
    /\ expr_handle' = 0
    /\ rule_idx' = 1
    /\ outcome' = None
    /\ exit_reason' = None
    /\ attempts' = <<>>
    /\ rep' = None
    /\ UNCHANGED <<plan, bfs_vars, eq_vars, config_vars, df_vars,
                   builder_vars>>

TwinNext ==
    \/ StartIteration
    \/ RangeExhausted
    \/ NextNode
    \/ SweepDone
    \/ TryRule
    \/ RulesExhausted
    \/ Finish
    \/ TwinPass

SpecTwin == SpecTwinInit /\ [][TwinNext]_vars

(***************************************************************************)
(* replace_opt_expression on its own: one call on the graph built from a   *)
(* plan, for any node of the graph and any replacement expression made of  *)
(* fresh operators and handles to nodes of the graph.                      *)
(***************************************************************************)
HandleExprs(pg) ==
    {OptExpression_with_expr_handle(h) : h \in NodeIds(pg.graph)}
      \cup {OptExpression_new(GroupHandleNode(h), <<>>) : h \in NodeIds(pg.graph)}

LeafExprs(pg) ==
    HandleExprs(pg)
      \cup {OptExpression_with_operator(TableScan_new("t3"), <<>>)}

ReplacementExprs(pg) ==
    LeafExprs(pg)
      \cup {OptExpression_with_operator(Limit_new(10), <<e>>) :
               e \in LeafExprs(pg)}
      \cup {OptExpression_with_operator(Join_new("Inner", EquiCondition),
                                        <<e, f>>) :
               e \in LeafExprs(pg), f \in LeafExprs(pg)}
      \cup {OptExpression_with_operator(Limit_new(10),
               <<OptExpression_with_operator(Projection_new(<<"a", "b">>),
                                             <<e>>)>>) :
               e \in HandleExprs(pg)}

SpecReplaceInit ==
    /\ \E n \in PlanSizes : plan \in PassPlans(n)
    /\ graph = PlanGraph_from(plan)
    /\ pc = "replace"
    /\ rep = None
    /\ match_order = "TopDown"
    /\ max_iter_times = 0
    /\ rules = <<>>
    /\ times = 0
    /\ fixed_point = TRUE
    /\ node_ids = <<>>
    /\ expr_handle = 0
    /\ rule_idx = 1
    /\ outcome = None
    /\ exit_reason = None
    /\ attempts = <<>>
    /\ first_outcome = None
    /\ BfsIdle
    /\ EqIdle
    /\ DfIdle
    /\ BuilderIdle

Replace ==
    /\ pc = "replace"
    /\ \E origin_node_id \in NodeIds(graph.graph),
          opt_node \in ReplacementExprs(graph) :
          LET replaced == replace_opt_expression(graph, opt_node,
                                                 origin_node_id)
          IN  /\ graph' = replaced.pg
              /\ rep' = Some([before |-> graph, origin |-> origin_node_id,
                              new |-> replaced.new,
                              changed |-> replaced.changed,
                              expr |-> opt_node])
    /\ pc' = "replaced"
    /\ UNCHANGED <<untouched, times, fixed_point, node_ids, expr_handle,
                   rule_idx, outcome, exit_reason, attempts>>

SpecReplace == SpecReplaceInit /\ [][Replace]_vars

(***************************************************************************)
(* datafusion_poc: datafusion's LogicalPlan, the two conversions           *)
(* (datafusion_poc/plan.rs) and the optimizer rule (datafusion_poc/rule.rs).*)
(***************************************************************************)
DFTableScan(table_name, schema, limit) ==
    [tag |-> "TableScan", table_name |-> table_name, source |-> schema,
     projection |-> None, projected_schema |-> schema, filters |-> <<>>,
     limit |-> limit]
DFProjection(expr, input, schema) ==
    [tag |-> "Projection", expr |-> expr, input |-> input, schema |-> schema,
     alias |-> None]
DFLimit(n, input) == [tag |-> "Limit", n |-> n, input |-> input]
DFJoin(left, right, on, join_type, schema) ==
    [tag |-> "Join", left |-> left, right |-> right, on |-> on,
     join_type |-> join_type, join_constraint |-> "On", schema |-> schema,
     null_equals_null |-> TRUE]
DFFilter(predicate, input) ==
    [tag |-> "Filter", predicate |-> predicate, input |-> input]

DFScans ==
    {DFTableScan("t1", "schema_t1", Some(5)),
     DFTableScan("t2", "schema_t2", None)}

DFOnLists ==
    {<<>>, <<<<"t1.a", "t2.b">>>>, <<<<"t1.a", "t2.b">>, <<"t1.c", "t2.d">>>>}

\* The datafusion plans of n nodes.
RECURSIVE DFPlans(_)
DFPlans(n) ==
    IF n = 1 THEN DFScans
    ELSE {DFProjection(<<"a", "b">>, input, "schema_p") : input \in DFPlans(n - 1)}
           \cup {DFLimit(10, input) : input \in DFPlans(n - 1)}
           \cup {DFFilter(LiteralTrue, input) : input \in DFPlans(n - 1)}
           \cup UNION {{DFJoin(left, right, on, "Inner", "schema_j") :
                           left \in DFPlans(i), right \in DFPlans(n - 1 - i),
                           on \in DFOnLists} : i \in 1..(n - 2)}

RECURSIVE Supported(_)
Supported(df) ==
    CASE df.tag = "TableScan" -> TRUE
      [] df.tag \in {"Projection", "Limit"} -> Supported(df.input)
      [] df.tag = "Join" -> Supported(df.left) /\ Supported(df.right)
      [] OTHER -> FALSE

\* join.on mapped to column equalities and reduced with and(); the literal
\* true when there is no pair (plan.rs:44-47).
RECURSIVE JoinCondFrom(_, _, _)
JoinCondFrom(on, i, acc) ==
    IF i > Len(on) THEN acc
    ELSE JoinCondFrom(on, i + 1,
            and(acc, Expr_eq(ExprColumn(on[i][1]), ExprColumn(on[i][2]))))

join_cond(on) ==
    IF on = <<>> THEN LiteralTrue
    ELSE JoinCondFrom(on, 2, Expr_eq(ExprColumn(on[1][1]), ExprColumn(on[1][2])))

\* A conversion that makes a limit of a scan.
ScanAsLimit(scan) == Limit_new(0)

\* LogicalScan(TableScan::new(&scan.table_name)) (plan.rs:55).
ScanOperator(scan) == TableScan_new(scan.table_name)

\* df_logical_plan_to_plan_node (plan.rs:29-65) with id_gen about to hand out
\* id: Ok(the PlanNodes of the converted tree, this node first, then its
\* inputs' trees) or Err.  Every node gets its own id, in call order, and the
\* node with id i is pointer i + 1.
RECURSIVE df_logical_plan_to_plan_node(_, _)
df_logical_plan_to_plan_node(df, id) ==
    CASE df.tag = "Projection" ->
           LET input == df_logical_plan_to_plan_node(df.input, id + 1) IN
           IF input.kind # "Ok" THEN input
           ELSE Ok(<<PlanNode_new(id, Projection_new(df.expr), <<id + 2>>)>>
                     \o input.value)
      [] df.tag = "Limit" ->
           LET input == df_logical_plan_to_plan_node(df.input, id + 1) IN
           IF input.kind # "Ok" THEN input
           ELSE Ok(<<PlanNode_new(id, Limit_new(df.n), <<id + 2>>)>>
                     \o input.value)
      [] df.tag = "Join" ->
           LET left == df_logical_plan_to_plan_node(df.left, id + 1) IN
           IF left.kind # "Ok" THEN left
           ELSE LET right == df_logical_plan_to_plan_node(
                                 df.right, id + 1 + Len(left.value)) IN
                IF right.kind # "Ok" THEN right
                ELSE Ok(<<PlanNode_new(id,
                                       Join_new(df.join_type, join_cond(df.on)),
                                       <<id + 2, id + 2 + Len(left.value)>>)>>
                          \o left.value \o right.value)
      [] df.tag = "TableScan" ->
           Ok(<<PlanNode_new(id, ScanOperator(df), <<>>)>>)
      [] OTHER -> Err("Unsupported datafusion logical plan")

\* impl TryFrom<&LogicalPlan> for PlanNode (plan.rs:20-27), wrapped in a Plan.
PlanNode_try_from(df) ==
    LET converted == df_logical_plan_to_plan_node(df, 0) IN
    IF converted.kind = "Ok" THEN Ok(Plan_new(1, converted.value))
    ELSE converted

\* expr_to_df_join_condition (plan.rs:76-94).
expr_to_df_join_condition(expr) ==
    IF expr.tag = "BinaryExpr" /\ expr.op = "Eq"
    THEN IF expr.left.tag = "Column" /\ expr.right.tag = "Column"
         THEN Ok(<<<<expr.left.column, expr.right.column>>>>)
         ELSE Err("Unsupported join condition to convert to datafusion join condition")
    ELSE Err("Unsupported join condition to convert to datafusion join condition")

\* The first input conversion that did not return Ok, if any: `?` returns an
\* Err and a panic unwinds as soon as it is met.
FirstFailure(results) ==
    IF \E i \in 1..Len(results) : results[i].kind # "Ok"
    THEN Some(results[CHOOSE i \in 1..Len(results) :
                        /\ results[i].kind # "Ok"
                        /\ \A j \in 1..(i - 1) : results[j].kind = "Ok"])
    ELSE None

\* plan_node_to_df_logical_plan (plan.rs:96-150) on the node at pointer p.
\* inputs.remove(0) and logical_prop().unwrap() panic; the fields of each
\* struct are evaluated in the order they are written.
RECURSIVE plan_node_to_df_logical_plan(_, _)
plan_node_to_df_logical_plan(nodes, p) ==
    LET plan_node == nodes[p]
        converted == [i \in 1..Len(plan_node.inputs) |->
                        plan_node_to_df_logical_plan(nodes, plan_node.inputs[i])]
        failure == FirstFailure(converted)
        inputs == [i \in 1..Len(converted) |-> converted[i].value]
        operator == plan_node.operator
    IN  IF failure # None THEN failure[1]
        ELSE CASE operator.tag = "LogicalProjection" ->
                    IF Len(inputs) < 1 THEN Panic("removal index out of range")
                    ELSE IF plan_node.logical_prop = None
                    THEN Panic("unwrap on None")
                    ELSE Ok(DFProjection(operator.expr, inputs[1],
                                         plan_node.logical_prop[1].schema))
               [] operator.tag = "LogicalLimit" ->
                    IF Len(inputs) < 1 THEN Panic("removal index out of range")
                    ELSE Ok(DFLimit(operator.limit, inputs[1]))
               [] operator.tag = "LogicalJoin" ->
                    IF Len(inputs) < 2 THEN Panic("removal index out of range")
                    ELSE LET on == expr_to_df_join_condition(operator.expr) IN
                         IF on.kind = "Err" THEN on
                         ELSE IF plan_node.logical_prop = None
                         THEN Panic("unwrap on None")
                         ELSE Ok(DFJoin(inputs[1], inputs[2], on.value,
                                        operator.join_type,
                                        plan_node.logical_prop[1].schema))
               [] operator.tag = "LogicalScan" ->
                    IF plan_node.logical_prop = None
                    THEN Panic("unwrap on None")
                    ELSE Ok(DFTableScan(operator.table_name,
                                        plan_node.logical_prop[1].schema,
                                        operator.limit))
               [] OTHER -> Err("Can't convert plan to data fusion logical plan")

\* impl TryFrom<&PlanNode> for LogicalPlan (plan.rs:68-74), on a plan's root.
LogicalPlan_try_from(pl) == plan_node_to_df_logical_plan(pl.nodes, pl.root)

\* The iteration cap DFOptimizerAdapterRule::optimize gives its optimizer.
AdapterMaxIterTimes == 1000

\* The rule lists of the DFOptimizerAdapterRule.  Each firing of these rules
\* takes a node out of the plan, so a pass over a plan of a few nodes never
\* comes near the cap and leaves its outer loop at a fixed point.
AdapterRuleLists ==
    {<<>>, <<"push_limit_to_scan">>, <<"remove_projection">>,
     <<"remove_projection", "push_limit_to_scan">>}

SpecDFInit ==
    /\ \E n \in PlanSizes : df_plan \in {Some(df) : df \in DFPlans(n)}
    /\ df_stage = "start"
    /\ df_internal = None
    /\ df_result = None
    /\ plan = Plan_new(1, <<>>)
    /\ PassIdle
    /\ BfsIdle
    /\ EqIdle
    /\ BuilderIdle

\* PlanNode::try_from(df_plan)
TryFromLogicalPlan ==
    /\ df_stage = "start"
    /\ df_internal' = Some(PlanNode_try_from(df_plan[1]))
    /\ df_stage' = "inbound"
    /\ UNCHANGED <<plan, bfs_vars, eq_vars, pass_vars, df_plan, df_result,
                   builder_vars>>

\* LogicalPlan::try_from(&plan_node) on the PlanNode the inbound conversion
\* returned.
TryFromPlanNode ==
    /\ df_stage = "inbound"
    /\ df_internal[1].kind = "Ok"
    /\ df_result' = Some(LogicalPlan_try_from(df_internal[1].value))
    /\ df_stage' = "outbound"
    /\ UNCHANGED <<plan, bfs_vars, eq_vars, pass_vars, df_plan, df_internal,
                   builder_vars>>

\* optimize (rule.rs:24-33) up to HepOptimizer::new: the inbound conversion,
\* `?` on its error, else the optimizer over the converted plan.
OptimizeBegin ==
    /\ df_stage = "start"
    /\ LET converted == PlanNode_try_from(df_plan[1]) IN
       /\ df_internal' = Some(converted)
       /\ IF converted.kind # "Ok"
          THEN /\ df_result' = Some(converted)
               /\ df_stage' = "optimized"
               /\ UNCHANGED <<plan, config_vars, graph, pc>>
          ELSE /\ \E rule_list \in AdapterRuleLists :
                    /\ rules' = rule_list
                    /\ match_order' = "TopDown"
                    /\ max_iter_times' = AdapterMaxIterTimes
                    /\ graph' = PlanGraph_from(converted.value)
               /\ plan' = converted.value
               /\ pc' = "iter"
               /\ df_stage' = "optimizing"
               /\ UNCHANGED df_result
    /\ UNCHANGED <<bfs_vars, eq_vars, builder_vars, times, fixed_point, node_ids,
                   expr_handle, rule_idx, outcome, exit_reason, attempts, rep,
                   first_outcome, df_plan>>

\* optimize (rule.rs:34-38) once find_best_plan is back: `?` on its error,
\* else the outbound conversion of the optimized plan's root.
OptimizeEnd ==
    /\ df_stage = "optimizing"
    /\ pc = "done"
    /\ df_result' = Some(IF outcome[1].kind = "Ok"
                         THEN LogicalPlan_try_from(outcome[1].value)
                         ELSE outcome[1])
    /\ df_stage' = "optimized"
    /\ UNCHANGED <<plan, bfs_vars, eq_vars, pass_vars, df_plan, df_internal,
                   builder_vars>>

DFNext ==
    \/ TryFromLogicalPlan
    \/ TryFromPlanNode
    \/ OptimizeBegin
    \/ StartIteration
    \/ NextNode
    \/ SweepDone
    \/ TryRule
    \/ RulesExhausted
    \/ Finish
    \/ OptimizeEnd

SpecDF == SpecDFInit /\ [][DFNext]_vars

(***************************************************************************)
(* The outbound conversion on its own: LogicalPlan::try_from on the root   *)
(* of a plan whose joins carry any of a number of predicates and whose     *)
(* nodes have a logical property or none.                                  *)
(***************************************************************************)
JoinPredicates ==
    LET ab == Expr_eq(ExprColumn("t1.a"), ExprColumn("t2.b"))
        cd == Expr_eq(ExprColumn("t1.c"), ExprColumn("t2.d"))
    IN  {ab, and(ab, cd), and(and(ab, cd), ab), LiteralTrue,
         and(ab, LiteralTrue), Expr_eq(ExprColumn("t1.a"), LiteralTrue),
         BinaryExpr(ExprColumn("t1.a"), "Lt", ExprColumn("t2.b")),
         ExprColumn("t1.a")}

\* LogicalProperty::new(schema) (properties/logical.rs:11-15).
LogicalProperty_new(schema) == [schema |-> schema]

\* pl with predicate expr on its joins and logical_prop props[k] on node k.
WithPredicateAndProps(pl, expr, props) ==
    Plan_new(pl.root,
        [k \in 1..Len(pl.nodes) |->
            [pl.nodes[k] EXCEPT
                !.operator = IF @.tag = "LogicalJoin"
                             THEN Join_new(@.join_type, expr) ELSE @,
                !.logical_prop = props[k]]])

OutboundPlans(n) ==
    {WithPredicateAndProps(pl, expr, props) :
        pl \in PassPlans(n), expr \in JoinPredicates,
        props \in [1..n -> {None, Some(LogicalProperty_new("schema"))}]}

SpecOutboundInit ==
    /\ \E n \in PlanSizes : plan \in OutboundPlans(n)
    /\ df_plan = None
    /\ df_stage = "internal"
    /\ df_internal = None
    /\ df_result = None
    /\ PassIdle
    /\ BfsIdle
    /\ EqIdle
    /\ BuilderIdle

\* LogicalPlan::try_from(&*plan.root())
TryFromRoot ==
    /\ df_stage = "internal"
    /\ df_result' = Some(LogicalPlan_try_from(plan))
    /\ df_stage' = "external"
    /\ UNCHANGED <<plan, bfs_vars, eq_vars, pass_vars, df_plan, df_internal,
                   builder_vars>>

SpecOutbound == SpecOutboundInit /\ [][TryFromRoot]_vars

(***************************************************************************)
(* LogicalPlanBuilder (plan.rs:186-262).  builder is the struct, heap the  *)
(* PlanNodes its methods created (Rc::new), returned the roots of the      *)
(* Plans build() returned.  A call that unwraps an empty root aborts the   *)
(* thread: it is recorded and nothing is called after it.                  *)
(***************************************************************************)
\* LogicalPlanBuilder::new (plan.rs:192-197).
LogicalPlanBuilder_new == [root |-> None, next_plan_node_id |-> 0]

\* reset_root (plan.rs:199-203).
LogicalPlanBuilder_reset_root(b, new_root) ==
    [root |-> Some(new_root), next_plan_node_id |-> b.next_plan_node_id + 1]

\* The PlanNode each method creates (plan.rs:205-250), or the panic of
\* self.root.clone().unwrap().
LogicalPlanBuilder_scan(b, limit, table_name) ==
    LET table_scan == IF limit # None
                      THEN TableScan_with_limit(table_name, limit[1])
                      ELSE TableScan_new(table_name)
    IN  Ok(PlanNode_new(b.next_plan_node_id, table_scan, <<>>))

LogicalPlanBuilder_projection(b, expr) ==
    IF b.root = None THEN Panic("unwrap on None")
    ELSE Ok(PlanNode_new(b.next_plan_node_id, Projection_new(expr),
                         <<b.root[1]>>))

LogicalPlanBuilder_limit(b, limit) ==
    IF b.root = None THEN Panic("unwrap on None")
    ELSE Ok(PlanNode_new(b.next_plan_node_id, Limit_new(limit), <<b.root[1]>>))

LogicalPlanBuilder_join(b, join_type, condition, right) ==
    IF b.root = None THEN Panic("unwrap on None")
    ELSE Ok(PlanNode_new(b.next_plan_node_id, Join_new(join_type, condition),
                         <<b.root[1], right>>))

\* A build that also starts the ids again.
BuildAndRestart(b) ==
    IF b.root = None THEN Panic("unwrap on None")
    ELSE Ok([ret |-> b.root[1], builder |-> LogicalPlanBuilder_new])

\* build (plan.rs:255-261): the Plan of the current root, and the builder
\* with its root taken.
LogicalPlanBuilder_build(b) ==
    IF b.root = None THEN Panic("unwrap on None")
    ELSE Ok([ret |-> b.root[1], builder |-> [b EXCEPT !.root = None]])

BuilderCall(op, result, before, after, node, ret) ==
    [op |-> op, result |-> result, before |-> before, after |-> after,
     node |-> node, ret |-> ret]

Aborted ==
    /\ builder_calls # <<>>
    /\ builder_calls[Len(builder_calls)].result = "Panic"

\* One of scan, projection, limit and join: the node is put on the heap and
\* made the root, or the call panics.
CreateNode(op, made) ==
    IF made.kind = "Panic"
    THEN /\ builder_calls' = Append(builder_calls,
                 BuilderCall(op, "Panic", builder, builder, None, None))
         /\ UNCHANGED <<builder, heap, returned>>
    ELSE LET node == Len(heap) + 1
             after == LogicalPlanBuilder_reset_root(builder, node) IN
         /\ heap' = Append(heap, made.value)
         /\ builder' = after
         /\ builder_calls' = Append(builder_calls,
                 BuilderCall(op, "Ok", builder, after, Some(node), None))
         /\ UNCHANGED returned

Scan ==
    /\ ~Aborted /\ Len(heap) < MaxBuilderNodes
    /\ \E limit \in {None, Some(5)} :
           CreateNode("scan", LogicalPlanBuilder_scan(builder, limit, "t1"))
    /\ UNCHANGED <<plan, bfs_vars, eq_vars, pass_vars, df_vars>>

Projection ==
    /\ ~Aborted /\ Len(heap) < MaxBuilderNodes
    /\ CreateNode("projection",
                  LogicalPlanBuilder_projection(builder, <<"a", "b">>))
    /\ UNCHANGED <<plan, bfs_vars, eq_vars, pass_vars, df_vars>>

Limit ==
    /\ ~Aborted /\ Len(heap) < MaxBuilderNodes
    /\ CreateNode("limit", LogicalPlanBuilder_limit(builder, 10))
    /\ UNCHANGED <<plan, bfs_vars, eq_vars, pass_vars, df_vars>>

\* join, its right input being the root of a Plan build returned earlier.
Join ==
    /\ ~Aborted /\ Len(heap) < MaxBuilderNodes
    /\ \E right \in Range(returned) :
           CreateNode("join", LogicalPlanBuilder_join(builder, "Inner",
                                                     EquiCondition, right))
    /\ UNCHANGED <<plan, bfs_vars, eq_vars, pass_vars, df_vars>>

Build ==
    /\ ~Aborted
    /\ LET made == LogicalPlanBuilder_build(builder) IN
       IF made.kind = "Panic"
       THEN /\ builder_calls' = Append(builder_calls,
                    BuilderCall("build", "Panic", builder, builder, None, None))
            /\ UNCHANGED <<builder, heap, returned>>
       ELSE /\ builder' = made.value.builder
            /\ returned' = Append(returned, made.value.ret)
            /\ builder_calls' = Append(builder_calls,
                    BuilderCall("build", "Ok", builder, made.value.builder,
                                None, Some(made.value.ret)))
            /\ UNCHANGED heap
    /\ UNCHANGED <<plan, bfs_vars, eq_vars, pass_vars, df_vars>>

SpecBuilderInit ==
    /\ plan = Plan_new(1, <<PlanNode_new(0, TableScan_new("t1"), <<>>)>>)
    /\ BfsIdle
    /\ EqIdle
    /\ PassIdle
    /\ DfIdle
    /\ builder = LogicalPlanBuilder_new
    /\ heap = <<>>
    /\ returned = <<>>
    /\ builder_calls = <<>>

BuilderNext ==
    \/ Scan
    \/ Projection
    \/ Limit
    \/ Join
    \/ Build

SpecBuilder == SpecBuilderInit /\ [][BuilderNext]_vars

(***************************************************************************)
(* PhysicalPlanBuilder (plan.rs:264-308).  scan is an associated function  *)
(* that makes a builder, hash_join and build take the builder by value:    *)
(* builder is the list of the builders made, None once moved into build.   *)
(***************************************************************************)
PhysicalTableScan(table_scan) == [table_scan EXCEPT !.tag = "PhysicalTableScan"]
PhysicalHashJoin(join) == [join EXCEPT !.tag = "PhysicalHashJoin"]

\* reset_root (plan.rs:270-273).
PhysicalPlanBuilder_reset_root(b, new_root) ==
    [root |-> new_root, next_plan_node_id |-> b.next_plan_node_id + 1]

\* The PlanNode scan creates (plan.rs:275-285): its id is 0.
PhysicalPlanBuilder_scan(limit, table_name) ==
    LET table_scan == IF limit # None
                      THEN TableScan_with_limit(table_name, limit[1])
                      ELSE TableScan_new(table_name)
    IN  PlanNode_new(0, PhysicalTableScan(table_scan), <<>>)

\* The PlanNode hash_join creates (plan.rs:293-299).
PhysicalPlanBuilder_hash_join(b, join_type, condition, right) ==
    PlanNode_new(b.next_plan_node_id,
                 PhysicalHashJoin(Join_new(join_type, condition)),
                 <<b.root, right>>)

\* PhysicalPlanBuilder::scan: a new builder whose root is the scan.
PhysicalScan ==
    /\ Len(heap) < MaxBuilderNodes
    /\ \E limit \in {None, Some(5)} :
           LET node == Len(heap) + 1
               made == [root |-> node, next_plan_node_id |-> 1] IN
           /\ heap' = Append(heap, PhysicalPlanBuilder_scan(limit, "t1"))
           /\ builder' = Append(builder, Some(made))
           /\ builder_calls' = Append(builder_calls,
                   BuilderCall("scan", "Ok", None, made, Some(node), None))
    /\ UNCHANGED <<plan, bfs_vars, eq_vars, pass_vars, df_vars, returned>>

\* hash_join on the builder at position i, its right input being the root
\* of a Plan that the build of another PhysicalPlanBuilder returned.
HashJoin ==
    /\ Len(heap) < MaxBuilderNodes
    /\ \E i \in 1..Len(builder), right \in Range(returned) :
           /\ builder[i] # None
           /\ LET b == builder[i][1]
                  node == Len(heap) + 1
                  after == PhysicalPlanBuilder_reset_root(b, node) IN
              /\ heap' = Append(heap,
                      PhysicalPlanBuilder_hash_join(b, "Inner", EquiCondition,
                                                    right))
              /\ builder' = [builder EXCEPT ![i] = Some(after)]
              /\ builder_calls' = Append(builder_calls,
                      BuilderCall("hash_join", "Ok", b, after, Some(node), None))
    /\ UNCHANGED <<plan, bfs_vars, eq_vars, pass_vars, df_vars, returned>>

\* build (plan.rs:305-307) on the builder at position i.
PhysicalBuild ==
    /\ \E i \in 1..Len(builder) :
           /\ builder[i] # None
           /\ returned' = Append(returned, builder[i][1].root)
           /\ builder' = [builder EXCEPT ![i] = None]
           /\ builder_calls' = Append(builder_calls,
                   BuilderCall("build", "Ok", builder[i][1], None, None,
                               Some(builder[i][1].root)))
    /\ UNCHANGED <<plan, bfs_vars, eq_vars, pass_vars, df_vars, heap>>

SpecPhysicalInit ==
    /\ plan = Plan_new(1, <<PlanNode_new(0, TableScan_new("t1"), <<>>)>>)
    /\ BfsIdle
    /\ EqIdle
    /\ PassIdle
    /\ DfIdle
    /\ builder = <<>>
    /\ heap = <<>>
    /\ returned = <<>>
    /\ builder_calls = <<>>

PhysicalNext ==
    \/ PhysicalScan
    \/ HashJoin
    \/ PhysicalBuild

SpecPhysical == SpecPhysicalInit /\ [][PhysicalNext]_vars

(***************************************************************************)
(* The pattern builders (rules/pattern.rs:61-149).  A NonRootPatternBuilder *)
(* holds its parent builder: builder is the chain of builders, the         *)
(* RootPatternBuilder first and the one the next call is made on last,     *)
(* each [matcher, inputs]; it is empty once the root finish has returned   *)
(* the Pattern, which is then the one element of returned.                 *)
(***************************************************************************)
\* pattern(matcher) (pattern.rs:61-66) and PatterBuilder::pattern
\* (pattern.rs:91-97, 124-130): a builder without inputs.
PatternBuilder_new(matcher) == [matcher |-> matcher, inputs |-> <<>>]

\* A child put before the inputs already there.
PrependChild(b, pattern) == [b EXCEPT !.inputs = <<pattern>> \o b.inputs]

\* add_child (pattern.rs:112-116, 143-147): self.inputs.push(pattern).
add_child(b, pattern) == [b EXCEPT !.inputs = Append(b.inputs, pattern)]

\* leaf (pattern.rs:99-103, 132-136).
PatternBuilder_leaf(b, matcher) ==
    [b EXCEPT !.inputs = Append(b.inputs, Pattern_new_leaf(matcher))]

PatternCall(op, matcher) == [op |-> op, matcher |-> matcher]

\* The patterns the calls made so far describe, leaves included.
PatternsBegun ==
    Cardinality({i \in 1..Len(builder_calls) : builder_calls[i].op # "finish"})

\* .pattern(matcher): a child builder whose parent is the current one.
OpenPattern ==
    /\ builder # <<>>
    /\ PatternsBegun < MaxBuilderNodes
    /\ \E matcher \in OperatorMatchers :
           /\ builder' = Append(builder, PatternBuilder_new(matcher))
           /\ builder_calls' = Append(builder_calls,
                                      PatternCall("pattern", matcher))
    /\ UNCHANGED <<plan, bfs_vars, eq_vars, pass_vars, df_vars, heap, returned>>

\* .leaf(matcher) on the current builder.
Leaf ==
    /\ builder # <<>>
    /\ PatternsBegun < MaxBuilderNodes
    /\ \E matcher \in OperatorMatchers :
           /\ builder' = [builder EXCEPT ![Len(builder)] =
                             PatternBuilder_leaf(@, matcher)]
           /\ builder_calls' = Append(builder_calls,
                                      PatternCall("leaf", matcher))
    /\ UNCHANGED <<plan, bfs_vars, eq_vars, pass_vars, df_vars, heap, returned>>

\* .finish(): the root builder returns its Pattern (pattern.rs:138-140); any
\* other adds its Pattern to its parent and returns the parent
\* (pattern.rs:105-109).
PatternFinish ==
    /\ builder # <<>>
    /\ LET n == Len(builder)
           self == builder[n]
           made == Pattern_new(self.matcher, self.inputs) IN
       IF n = 1
       THEN /\ returned' = <<made>>
            /\ builder' = <<>>
       ELSE /\ builder' = [i \in 1..(n - 1) |->
                              IF i = n - 1 THEN add_child(builder[i], made)
                              ELSE builder[i]]
            /\ UNCHANGED returned
    /\ builder_calls' = Append(builder_calls, PatternCall("finish", "none"))
    /\ UNCHANGED <<plan, bfs_vars, eq_vars, pass_vars, df_vars, heap>>

\* After pattern(matcher).
SpecPatternInit ==
    /\ plan = Plan_new(1, <<PlanNode_new(0, TableScan_new("t1"), <<>>)>>)
    /\ BfsIdle
    /\ EqIdle
    /\ PassIdle
    /\ DfIdle
    /\ \E matcher \in OperatorMatchers :
           /\ builder = <<PatternBuilder_new(matcher)>>
           /\ builder_calls = <<PatternCall("pattern", matcher)>>
    /\ heap = <<>>
    /\ returned = <<>>

PatternNext ==
    \/ OpenPattern
    \/ Leaf
    \/ PatternFinish

SpecPattern == SpecPatternInit /\ [][PatternNext]_vars

(***************************************************************************)
(* Claims about the datafusion conversions.                                *)
(***************************************************************************)
\* C10: a supported datafusion plan converted to the internal plan and back
\* comes out equal to the original, and so does one passed through optimize
\* with an empty rule list.
C10_RoundTripReturnsTheOriginal ==
    (/\ Supported(df_plan[1])
     /\ \/ df_stage = "outbound"
        \/ df_stage = "optimized" /\ rules = <<>>)
    => df_result = Some(Ok(df_plan[1]))

\* The inputs of a datafusion plan node, in order.
DFInputs(df) ==
    CASE df.tag \in {"Projection", "Limit", "Filter"} -> <<df.input>>
      [] df.tag = "Join" -> <<df.left, df.right>>
      [] OTHER -> <<>>

RECURSIVE DFSize(_)
DFSize(df) ==
    1 + (IF DFInputs(df) = <<>> THEN 0
         ELSE IF Len(DFInputs(df)) = 1 THEN DFSize(DFInputs(df)[1])
         ELSE DFSize(DFInputs(df)[1]) + DFSize(DFInputs(df)[2]))

\* The internal variant of a supported datafusion kind.
VariantOf(tag) ==
    CASE tag = "Projection" -> "LogicalProjection"
      [] tag = "Limit" -> "LogicalLimit"
      [] tag = "Join" -> "LogicalJoin"
      [] tag = "TableScan" -> "LogicalScan"

\* The node at pointer p is of the variant of df's kind and its inputs are,
\* position by position, such nodes for df's inputs.
RECURSIVE Mirrors(_, _, _)
Mirrors(df, nodes, p) ==
    /\ nodes[p].operator.tag = VariantOf(df.tag)
    /\ Len(nodes[p].inputs) = Len(DFInputs(df))
    /\ \A i \in 1..Len(DFInputs(df)) :
           Mirrors(DFInputs(df)[i], nodes, nodes[p].inputs[i])

RECURSIVE Conjuncts(_)
Conjuncts(expr) ==
    IF expr.tag = "BinaryExpr" /\ expr.op = "And"
    THEN Conjuncts(expr.left) \o Conjuncts(expr.right)
    ELSE <<expr>>

IsColumnEquality(expr) ==
    /\ expr.tag = "BinaryExpr"
    /\ expr.op = "Eq"
    /\ expr.left.tag = "Column"
    /\ expr.right.tag = "Column"

UnsupportedJoinCondition ==
    Err("Unsupported join condition to convert to datafusion join condition")

\* C15: the outbound conversion of a join (whose inputs convert and which
\* has its logical property) succeeds exactly when its predicate is a
\* conjunction of one or more column equalities, with one column pair per
\* conjunct, in order; otherwise it returns the unsupported-join-condition
\* error.
C15_JoinConvertsIffConjunctionOfEqualities ==
    (/\ df_stage = "external"
     /\ plan.nodes[plan.root].operator.tag = "LogicalJoin"
     /\ \A k \in 1..Len(plan.nodes) : plan.nodes[k].logical_prop # None)
    => LET conjuncts == Conjuncts(plan.nodes[plan.root].operator.expr) IN
       IF \A i \in 1..Len(conjuncts) : IsColumnEquality(conjuncts[i])
       THEN /\ df_result[1].kind = "Ok"
            /\ df_result[1].value.on =
                  [i \in 1..Len(conjuncts) |->
                      <<conjuncts[i].left.column, conjuncts[i].right.column>>]
       ELSE df_result[1] = UnsupportedJoinCondition

\* The predicate of every join under pointer p is what the on list of the
\* join it was converted from asks for: the literal true for no pair, else
\* the conjunction, left to right, of one column equality per pair.
RECURSIVE JoinPredicatesFollowOn(_, _, _)
JoinPredicatesFollowOn(df, nodes, p) ==
    /\ df.tag = "Join" =>
           LET expr == nodes[p].operator.expr IN
           IF df.on = <<>> THEN expr = LiteralTrue
           ELSE Conjuncts(expr) =
                    [i \in 1..Len(df.on) |->
                        Expr_eq(ExprColumn(df.on[i][1]), ExprColumn(df.on[i][2]))]
    /\ \A i \in 1..Len(DFInputs(df)) :
           JoinPredicatesFollowOn(DFInputs(df)[i], nodes, nodes[p].inputs[i])

\* C16: the inbound conversion gives a join the conjunction, left to right,
\* of the column equalities of its on list, and the literal true for an
\* empty on list; the outbound conversion of the join with the literal true
\* then returns the unsupported-join-condition error.
C16_EmptyOnBecomesTrueAndFailsOutbound ==
    (df_stage \in {"inbound", "outbound"} /\ Supported(df_plan[1])) =>
        /\ JoinPredicatesFollowOn(df_plan[1], df_internal[1].value.nodes,
                                  df_internal[1].value.root)
        /\ (/\ df_stage = "outbound"
            /\ df_plan[1].tag = "Join"
            /\ df_plan[1].on = <<>>)
           => df_result[1] = UnsupportedJoinCondition

\* Some Projection, Join or TableScan node of the plan has no logical
\* property.
LacksLogicalProp(pl) ==
    \E p \in Reachable(pl) :
        /\ pl.nodes[p].operator.tag \in
              {"LogicalProjection", "LogicalJoin", "LogicalScan"}
        /\ pl.nodes[p].logical_prop = None

\* C17: an outbound conversion of a plan with a Projection, Join or
\* TableScan node that has no logical property returns an error, whether the
\* plan comes from the inbound conversion or from a heuristic pass.
C17_MissingPropertyIsAnError ==
    /\ (df_stage = "outbound" /\ LacksLogicalProp(df_internal[1].value))
          => df_result[1].kind = "Err"
    /\ (/\ df_stage = "optimized"
        /\ df_internal[1].kind = "Ok"
        /\ outcome[1].kind = "Ok"
        /\ LacksLogicalProp(outcome[1].value))
          => df_result[1].kind = "Err"

(***************************************************************************)
(* Claims about the plan builders.                                         *)
(***************************************************************************)
\* The ids of the nodes under the root p.
BuiltIds(p) == {heap[q].id : q \in ReachableFrom(heap, {p})}

\* C18: every node a LogicalPlanBuilder creates has an id greater than the
\* ids of all the nodes it created before; build returns the current root,
\* clears the root and leaves the id counter as it was; two different nodes
\* of the plans build returned never have the same id.
C18_BuilderIdsIncrease ==
    /\ \A i, j \in 1..Len(heap) : i < j => heap[i].id < heap[j].id
    /\ \A k \in 1..Len(builder_calls) :
           LET c == builder_calls[k] IN
           (c.op = "build" /\ c.result = "Ok") =>
               /\ Some(c.ret[1]) = c.before.root
               /\ c.after.root = None
               /\ c.after.next_plan_node_id = c.before.next_plan_node_id
    /\ \A i, j \in 1..Len(returned) :
           \A p \in ReachableFrom(heap, {returned[i]}) :
               \A q \in ReachableFrom(heap, {returned[j]}) :
                   p # q => heap[p].id # heap[q].id

\* A join whose right input was built, and returned by build, before the
\* left one was begun on the same builder; the join has been built too.
C18_Witness ==
    /\ Len(returned) = 2
    /\ heap[returned[2]].operator.tag = "LogicalJoin"
    /\ heap[returned[2]].inputs[2] = returned[1]
    /\ heap[returned[2]].inputs[1] > returned[1]
    /\ BuiltIds(returned[2]) = {0, 1, 2}

\* C19: in every plan built with PhysicalPlanBuilder, a hash_join over a
\* right subtree built with another PhysicalPlanBuilder included, different
\* nodes have different ids, and the BFS iterator over the plan yields both
\* inputs of every join it yields.
C19_PhysicalPlansHaveDistinctIds ==
    \A k \in 1..Len(returned) :
        LET pl == Plan_new(returned[k], heap)
            seen == Range(bfs_iterator(pl)) IN
        /\ \A p, q \in Reachable(pl) : p # q => heap[p].id # heap[q].id
        /\ \A p \in seen :
               heap[p].operator.tag = "PhysicalHashJoin" =>
                   Range(heap[p].inputs) \subseteq seen

\* A Pattern as a tree: its predicate and the list of its child patterns,
\* empty for a Pattern without child patterns.
RECURSIVE TreeOf(_)
TreeOf(pattern) ==
    [predict |-> pattern.predict,
     children |-> IF pattern.children = None THEN <<>>
                  ELSE [i \in 1..Len(pattern.children[1]) |->
                           TreeOf(pattern.children[1][i])]]

\* The children the calls from position i on describe for the level they
\* are made at, up to the finish that closes the level, and the position
\* after that finish: a leaf is a child without children, a nested pattern
\* up to its finish is one child.
RECURSIVE ChildrenFrom(_, _)
ChildrenFrom(cs, i) ==
    IF i > Len(cs) \/ cs[i].op = "finish"
    THEN [children |-> <<>>, next |-> i + 1]
    ELSE IF cs[i].op = "leaf"
    THEN LET rest == ChildrenFrom(cs, i + 1) IN
         [children |-> <<[predict |-> cs[i].matcher, children |-> <<>>]>>
                           \o rest.children,
          next |-> rest.next]
    ELSE LET sub == ChildrenFrom(cs, i + 1)
             rest == ChildrenFrom(cs, sub.next) IN
         [children |-> <<[predict |-> cs[i].matcher,
                          children |-> sub.children]>> \o rest.children,
          next |-> rest.next]

\* C20: the Pattern the root finish returns has the predicate given to
\* pattern(m) and, at every level, the children in the order of the leaf and
\* nested pattern calls made at that level.
C20_FinishReturnsTheTreeOfTheCalls ==
    returned # <<>> =>
        TreeOf(returned[1]) =
            [predict |-> builder_calls[1].matcher,
             children |-> ChildrenFrom(builder_calls, 2).children]

\* The pattern of the documentation: a join over a limit, itself over
\* anything, and a scan.
C20_Witness ==
    /\ returned # <<>>
    /\ TreeOf(returned[1]) =
          [predict |-> "is_join",
           children |-> <<[predict |-> "is_limit",
                           children |-> <<[predict |-> "any",
                                           children |-> <<>>]>>],
                          [predict |-> "is_scan", children |-> <<>>]>>]

(***************************************************************************)
(* Claims about the heuristic pass.                                        *)
(***************************************************************************)
\* What is left of a behaviour: the passes, the turns of the outer loop, the
\* nodes of the sweep and the rules on the node still to come, weighed so that
\* a turn outweighs a whole sweep and a pass outweighs all its turns.
SweepWeight == (MaxPlanNodes + MaxIter + 1) * (Len(rules) + 2) + 5
PassWeight == (MaxIter + 1) * SweepWeight + 5

StepsLeft ==
    (IF first_outcome = None THEN PassWeight ELSE 0)
      + CASE pc = "iter" -> (max_iter_times - times) * SweepWeight + 3
          [] pc = "node" -> (max_iter_times - times) * SweepWeight + 3
                              + Len(node_ids) * (Len(rules) + 2) + 1
          [] pc = "rule" -> (max_iter_times - times) * SweepWeight + 3
                              + Len(node_ids) * (Len(rules) + 2)
                              + (Len(rules) + 1 - rule_idx) + 2
          [] pc = "finish" -> 2
          [] OTHER -> 1

\* C1: find_best_plan ends, and by then the outer loop has taken at most
\* max_iter_times turns, whatever the plan, the rules and the match order:
\* the turns begun never exceed max_iter_times, and every step of a pass
\* brings it closer to its end.
C1_PassEndsWithinMaxIterTimes ==
    /\ [](times <= max_iter_times /\ StepsLeft >= 0)
    /\ [][StepsLeft' < StepsLeft]_vars

\* A pass with a rule that fires in every sweep, stopped by the cap after
\* several sweeps.
C1_Witness ==
    /\ pc = "done"
    /\ rules = <<"refresh_scan">>
    /\ exit_reason = Some("cap")
    /\ times = max_iter_times
    /\ times >= 2
    /\ Len(attempts) >= 2

TooManyResults == Err("Rewrite rule should not return no more than 1 result.")

\* C2: an apply_rule call whose rule returned more than one replacement ends
\* in the "should not return no more than 1 result" error, the pass fails
\* with it, and the graph is as it was before that call.
C2_SeveralResultsFailThePass ==
    \A i \in 1..Len(attempts) :
        attempts[i].results > 1 =>
            /\ attempts[i].result = TooManyResults
            /\ i = Len(attempts)
            /\ pc = "done" /\ outcome = Some(TooManyResults)

ParentsBefore(r, a) ==
    IF a \in DOMAIN r.before.graph.out THEN Parents(r.before.graph, a) ELSE {}

Inserted(r) == NodeIds(graph.graph) \ NodeIds(r.before.graph)

OriginGone(r) ==
    /\ r.origin \notin NodeIds(graph.graph)
    /\ \A i \in DOMAIN graph.graph.out : r.origin \notin Range(graph.graph.out[i])

RootFollows(r) ==
    graph.root = IF r.before.root = r.origin THEN r.new ELSE r.before.root

\* C3 as stated: after a replacement with new # origin, (a) the parents of
\* new are exactly the parents origin had, (b) origin is gone, (c) the root
\* is new if it was origin and unchanged otherwise.
C3_NewHasExactlyOriginsParents ==
    rep # None /\ rep[1].changed =>
        /\ Parents(graph.graph, rep[1].new) = ParentsBefore(rep[1], rep[1].origin)
        /\ OriginGone(rep[1])
        /\ RootFollows(rep[1])

\* C3, amended: after a replacement with new # origin, (a) every parent
\* origin had, other than origin itself, is a parent of new, and new has no
\* parent besides these, the parents new had before the call and the nodes
\* the call inserted; (b) origin is gone; (c) the root is new if it was
\* origin and unchanged otherwise.
C3_NewGainsOriginsParents ==
    rep # None /\ rep[1].changed =>
        /\ ParentsBefore(rep[1], rep[1].origin) \ {rep[1].origin}
              \subseteq Parents(graph.graph, rep[1].new)
        /\ Parents(graph.graph, rep[1].new) \subseteq
              (ParentsBefore(rep[1], rep[1].origin)
                 \cup ParentsBefore(rep[1], rep[1].new)
                 \cup Inserted(rep[1])) \ {rep[1].origin}
        /\ OriginGone(rep[1])
        /\ RootFollows(rep[1])

\* A replacement by a handle to a node that keeps a parent of its own, and
\* one of a node that has a parent by a fresh operator.
C3_Witness ==
    /\ rep # None
    /\ rep[1].changed
    /\ ParentsBefore(rep[1], rep[1].origin) # {}
    /\ Parents(graph.graph, rep[1].new) # ParentsBefore(rep[1], rep[1].origin)
    /\ rep[1].new \in NodeIds(rep[1].before.graph)

NoRuleFired == \A i \in 1..Len(attempts) : attempts[i].result = Ok(FALSE)

\* C4: when a pass has ended at a fixed point, a second pass over the plan it
\* returned, with the same rules and match order, fires no rule and returns a
\* plan equal to the first one.
C4_SecondPassReturnsTheSamePlan ==
    (/\ first_outcome # None
     /\ first_outcome[1].exit_reason = "fixed_point"
     /\ max_iter_times >= 1
     /\ pc = "done")
    => /\ NoRuleFired
       /\ outcome[1].kind = "Ok"
       /\ Plan_eq(outcome[1].value, first_outcome[1].outcome.value)

\* C5: a pass in which no rule fires stops after one sweep and returns a
\* plan equal to its input, inputs in the same order at every node.
C5_NoFiringReturnsTheInput ==
    (/\ first_outcome = None
     /\ pc = "done"
     /\ max_iter_times >= 1
     /\ NoRuleFired)
    => /\ times = 1
       /\ outcome[1].kind = "Ok"
       /\ Plan_eq(outcome[1].value, plan)

\* C13: when a rule's apply returns an error, apply_rule returns that error,
\* it is the last call of the pass, and the pass is over with that error as
\* its result, not a plan.
C13_RuleErrorAbortsThePass ==
    \A i \in 1..Len(attempts) :
        attempts[i].failed =>
            /\ attempts[i].result.kind = "Err"
            /\ i = Len(attempts)
            /\ pc = "done"
            /\ outcome = Some(attempts[i].result)

\* A pass that a rule's error ended after an earlier rule was tried, with
\* nodes of the sweep still to come.
C13_Witness ==
    /\ pc = "done"
    /\ outcome # None
    /\ outcome[1].kind = "Err"
    /\ Len(attempts) >= 2
    /\ attempts[Len(attempts)].failed
    /\ node_ids # <<>>

\* The graph nodes that edges lead to from the nodes in S, in any number of
\* steps.
RECURSIVE DescendantsOf(_, _, _)
DescendantsOf(g, S, found) ==
    LET more == found \cup UNION {Range(g.out[a]) : a \in S \cup found}
    IN  IF more = found THEN found ELSE DescendantsOf(g, S, more)

Descendants(g, a) == DescendantsOf(g, {a}, {})

\* No node of the graph is below itself.
IsDag(g) == \A a \in NodeIds(g) : a \notin Descendants(g, a)

\* A sweep has just collected its nodes: node_ids is what nodes_iter returned.
SweepCollected == pc = "node" /\ node_ids = nodes_iter(graph, match_order)

\* C12: on a graph that is a single-rooted DAG, the nodes a sweep collects
\* are the nodes reachable from the root, each once, and every node comes
\* after all its descendants in BottomUp order and before all of them in
\* TopDown order.
C12_SweepOrderRespectsDescendants ==
    (SweepCollected /\ IsDag(graph.graph)) =>
        /\ Range(node_ids) = {graph.root} \cup Descendants(graph.graph, graph.root)
        /\ \A i, j \in 1..Len(node_ids) : i # j => node_ids[i] # node_ids[j]
        /\ \A i, j \in 1..Len(node_ids) :
               node_ids[j] \in Descendants(graph.graph, node_ids[i]) =>
                   IF match_order = "BottomUp" THEN j < i ELSE i < j

\* The (node, rule) pairs of a run's apply_rule calls, in order, each with
\* whether the rule fired.
Trail(calls) ==
    [i \in 1..Len(calls) |->
        <<calls[i].handle, calls[i].rule, calls[i].result = Ok(TRUE)>>]

\* Both runs made the same apply_rule calls in the same order, the same ones
\* fired, and both returned plans that compare equal or both failed alike.
SameRun ==
    /\ Trail(attempts) = Trail(first_outcome[1].attempts)
    /\ IF outcome[1].kind = "Ok" /\ first_outcome[1].outcome.kind = "Ok"
       THEN Plan_eq(outcome[1].value, first_outcome[1].outcome.value)
       ELSE outcome[1] = first_outcome[1].outcome

\* The two plans are one DAG: the same nodes with the same inputs, hence the
\* same nodes shared, and the same pairs of nodes carrying equal ids.
SameDag(p, q) ==
    /\ Len(p.nodes) = Len(q.nodes)
    /\ p.root = q.root
    /\ \A k \in 1..Len(p.nodes) :
           [p.nodes[k] EXCEPT !.id = 0] = [q.nodes[k] EXCEPT !.id = 0]
    /\ \A i, j \in 1..Len(p.nodes) :
           (p.nodes[i].id = p.nodes[j].id) <=> (q.nodes[i].id = q.nodes[j].id)

\* C11 as stated: two runs on plans that compare equal, with the same rules,
\* match order and iteration cap, attempt the same (node, rule) pairs in the
\* same order, fire the same rules and return plans that compare equal.
C11_EqualPlansRunAlike ==
    (/\ first_outcome # None
     /\ other # None
     /\ pc = "done"
     /\ Plan_eq(plan, other[1]))
    => SameRun

\* C11, amended: two runs on plans that are the same DAG (equal node for
\* node, the same nodes shared, equal ids on the same pairs of nodes), with
\* the same rules, match order and iteration cap, attempt the same
\* (node, rule) pairs in the same order, fire the same rules and end alike,
\* whatever the order in which each run's HashMap hands out its keys.
C11_SameDagRunsAlike ==
    (/\ first_outcome # None
     /\ other # None
     /\ pc = "done"
     /\ SameDag(plan, other[1]))
    => SameRun

\* Two runs in which a rule fired, on a plan with a shared node and the same
\* plan with other ids, both returning a plan.
C11_Witness ==
    /\ first_outcome # None
    /\ other # None
    /\ pc = "done"
    /\ SameDag(plan, other[1])
    /\ plan # other[1]
    /\ \E i \in 1..Len(attempts) : attempts[i].result = Ok(TRUE)
    /\ outcome[1].kind = "Ok"
    /\ Len(plan.nodes) < Len(Unshared(plan).nodes)

\* The PlanNode at pointer p of pl is the graph node h of pg with its
\* outgoing neighbours, in order, as inputs.
RECURSIVE PlanOfGraphAt(_, _, _, _)
PlanOfGraphAt(pg, h, pl, p) ==
    LET targets == neighbors_outgoing(pg.graph, h) IN
    /\ pl.nodes[p].operator = pg.graph.weights[h][1].operator
    /\ Len(pl.nodes[p].inputs) = Len(targets)
    /\ \A i \in 1..Len(targets) :
           PlanOfGraphAt(pg, targets[i], pl, pl.nodes[p].inputs[i])

\* C21: a pass that the iteration cap ends returns Ok with the plan of the
\* graph as rewritten so far; with max_iter_times = 0 no rule is attempted
\* and the plan returned is structurally equal to the input.
C21_CapReturnsThePlanSoFar ==
    (pc = "done" /\ exit_reason = Some("cap") /\ first_outcome = None) =>
        /\ outcome[1].kind = "Ok"
        /\ PlanOfGraphAt(graph, graph.root, outcome[1].value,
                         outcome[1].value.root)
        /\ max_iter_times = 0 =>
               /\ attempts = <<>>
               /\ Plan_eq(outcome[1].value, plan)

\* The firings of the pass so far: the apply_rule calls that returned
\* Ok(true).
Firings == {i \in 1..Len(attempts) : attempts[i].result = Ok(TRUE)}

IsSuffix(s, t) ==
    /\ Len(s) <= Len(t)
    /\ s = SubSeq(t, Len(t) - Len(s) + 1, Len(t))

\* C22: every outer iteration applies at most one replacement: while a sweep
\* is under way every earlier iteration has fired once and this one has not,
\* and the nodes it still has to visit are the rest of the enumeration of
\* the current graph; a pass that ends at its fixed point after k firings has
\* made k + 1 iterations, and removing the projection of Projection over
\* Scan returns the Scan alone after 2 iterations.
C22_OneReplacementPerIteration ==
    /\ Cardinality(Firings) <= times
    /\ pc \in {"node", "rule"} =>
          /\ Cardinality(Firings) = times - 1
          /\ IsSuffix(node_ids, nodes_iter(graph, match_order))
    /\ (pc = "done" /\ exit_reason = Some("fixed_point")) =>
          times = Cardinality(Firings) + 1
    /\ (/\ pc = "done" /\ first_outcome = None
        /\ Len(plan.nodes) = 2
        /\ plan.nodes[1].operator.tag = "LogicalProjection"
        /\ rules = <<"remove_projection">>
        /\ max_iter_times >= 2) =>
          /\ times = 2
          /\ outcome[1].kind = "Ok"
          /\ Len(outcome[1].value.nodes) = 1
          /\ outcome[1].value.nodes[1].operator = plan.nodes[2].operator

\* The projection of Projection over Scan has been removed and the pass has
\* ended at its fixed point in the second iteration.
C22_Witness ==
    /\ pc = "done" /\ first_outcome = None
    /\ exit_reason = Some("fixed_point")
    /\ plan.nodes[1].operator.tag = "LogicalProjection"
    /\ rules = <<"remove_projection">>
    /\ Cardinality(Firings) = 1
    /\ times = 2

\* The attempts made since the last firing: those of the sweep under way.
LastFiring == IF Firings = {} THEN 0
              ELSE CHOOSE f \in Firings : \A g \in Firings : g <= f
ThisSweep == SubSeq(attempts, LastFiring + 1, Len(attempts))

\* The place of a rule in the rule list.
RulePlace(rule) == CHOOSE k \in 1..Len(rules) : rules[k] = rule

\* C23: in a sweep the nodes are taken in enumeration order and, on each,
\* the rules in list order: a rule that changes nothing is followed by the
\* next rule on the same node, a node on which no rule fires by the next
\* node; a firing is preceded, on its node, by the rules before it in the
\* list, none of which fired, and it ends the sweep.
C23_RulesInListOrderOnEachNode ==
    /\ pc \in {"node", "rule"} =>
          LET full == nodes_iter(graph, match_order)
              v == Len(full) - Len(node_ids)
              R == Len(rules)
              n == IF pc = "rule" THEN (v - 1) * R + rule_idx - 1 ELSE v * R
          IN  /\ Len(ThisSweep) = n
              /\ \A j \in 1..n :
                     /\ ThisSweep[j].handle = full[((j - 1) \div R) + 1]
                     /\ ThisSweep[j].rule = rules[((j - 1) % R) + 1]
                     /\ ThisSweep[j].result = Ok(FALSE)
    /\ \A f \in Firings :
          LET k == RulePlace(attempts[f].rule) IN
          /\ f >= k
          /\ \A d \in 1..(k - 1) :
                 /\ attempts[f - d].handle = attempts[f].handle
                 /\ attempts[f - d].rule = rules[k - d]
                 /\ attempts[f - d].result = Ok(FALSE)
    /\ (pc = "iter" /\ times > 0) => LastFiring = Len(attempts)

\* A sweep in which the first rule of the list changed nothing on a node and
\* a later rule of the list fired on that node, after a node on which no
\* rule fired.
C23_Witness ==
    /\ pc = "iter"
    /\ Len(rules) = 3
    /\ LastFiring = Len(attempts)
    /\ Len(attempts) >= 5
    /\ attempts[Len(attempts)].rule # rules[1]
    /\ attempts[Len(attempts) - 1].handle = attempts[Len(attempts)].handle
    /\ attempts[1].handle # attempts[Len(attempts)].handle

\* C24: replace_opt_expression returns true exactly when it changed the
\* graph: after false the nodes, the edges and the root are as before the
\* call, nothing having been inserted; after true the graph differs and the
\* origin node is no longer in it.
C24_ReplaceTellsWhetherTheGraphChanged ==
    rep # None =>
        /\ ~rep[1].changed => /\ graph = rep[1].before
                              /\ Inserted(rep[1]) = {}
        /\ rep[1].changed => /\ graph # rep[1].before
                             /\ OriginGone(rep[1])

\* A node with a parent replaced by a handle to itself: nothing changed.
C24_Witness ==
    /\ rep # None
    /\ ~rep[1].changed
    /\ rep[1].new = rep[1].origin
    /\ Parents(graph.graph, rep[1].origin) # {}

\* C25: to_plan succeeds on every graph of a pass that is a single-rooted
\* DAG, graphs with a node shared by parents at different depths and graphs
\* made by replacements included: no node is materialized before one of its
\* children.
C25_ToPlanNeverFails ==
    (graph.root \in NodeIds(graph.graph) /\ IsDag(graph.graph)) =>
        to_plan(graph).kind = "Ok"

\* The OperatorNodes of a replacement expression.
RECURSIVE OperatorNodes(_)
RECURSIVE SumOperatorNodes(_, _)
SumOperatorNodes(exprs, i) ==
    IF i > Len(exprs) THEN 0
    ELSE OperatorNodes(exprs[i]) + SumOperatorNodes(exprs, i + 1)
OperatorNodes(expr) ==
    IF expr.node.tag = "OperatorNode"
    THEN 1 + SumOperatorNodes(expr.inputs, 1)
    ELSE 0

ReachableNodes(pg) == {pg.root} \cup Descendants(pg.graph, pg.root)

\* The nodes below the origin before the replacement r, and those among
\* them that the root reached through the origin only.
OldSubtree(r) == Descendants(r.before.graph, r.origin)
OnlyBelowOrigin(r) ==
    IF r.before.root = r.origin THEN OldSubtree(r)
    ELSE OldSubtree(r) \
           ({r.before.root} \cup
            Descendants(remove_node(r.before.graph, r.origin), r.before.root))

\* The replacement and what is below it.
BelowNew(r) == {r.new} \cup Descendants(graph.graph, r.new)

\* What C26 says of the nodes a replacement inserts, of the nodes in dropped
\* that the replacement does not lead to, and of the plan returned.
ReplacementDrops(dropped) ==
    /\ rep # None =>
          /\ Cardinality(Inserted(rep[1])) = OperatorNodes(rep[1].expr)
          /\ rep[1].expr.node.tag # "OperatorNode" =>
                rep[1].new \in NodeIds(rep[1].before.graph)
          /\ rep[1].changed =>
                /\ (dropped \ BelowNew(rep[1])) \cap ReachableNodes(graph) = {}
                /\ SweepCollected =>
                      (dropped \ BelowNew(rep[1])) \cap Range(node_ids) = {}
    /\ (pc = "done" /\ outcome[1].kind = "Ok") =>
          Len(outcome[1].value.nodes) = Cardinality(ReachableNodes(graph))
    /\ (/\ pc = "done" /\ first_outcome = None
        /\ Len(plan.nodes) = 2
        /\ plan.nodes[1].operator = Limit_new(10)
        /\ plan.nodes[2].operator = TableScan_new("t1")
        /\ rules = <<"push_limit_to_scan">>
        /\ max_iter_times >= 2) =>
          /\ outcome[1].kind = "Ok"
          /\ Len(outcome[1].value.nodes) = 1
          /\ outcome[1].value.nodes[1].operator = TableScan_with_limit("t1", 10)
          /\ Cardinality(Firings) = 1

\* C26 as stated: a replacement inserts one node per OperatorNode of its
\* expression and none for a handle; the nodes of the old sub-tree that the
\* replacement does not lead to are not reachable from the root any more,
\* are not in a later sweep and are not in the plan returned; Limit(10) over
\* Scan(t1) replaced by Scan(t1, limit = 10) returns that one node after one
\* firing.
C26_OldSubtreeIsDropped ==
    ReplacementDrops(IF rep = None THEN {} ELSE OldSubtree(rep[1]))

\* C26, amended: the same of the nodes of the old sub-tree that the root
\* reached through the origin only; a node of the old sub-tree that another
\* parent shares stays reachable.
C26_UnsharedOldSubtreeIsDropped ==
    ReplacementDrops(IF rep = None THEN {} ELSE OnlyBelowOrigin(rep[1]))

\* Limit over Scan has been replaced by a fresh Scan: the old Scan is still
\* in the graph, out of reach of the root, and the pass has returned.
C26_Witness ==
    /\ pc = "done" /\ first_outcome = None
    /\ rep # None /\ rep[1].changed
    /\ OperatorNodes(rep[1].expr) = 1
    /\ OnlyBelowOrigin(rep[1]) \cap NodeIds(graph.graph) # {}
    /\ OnlyBelowOrigin(rep[1]) \cap ReachableNodes(graph) = {}
    /\ outcome[1].kind = "Ok"

\* C27: after a replacement whose expression is made of fresh operators and
\* handles to nodes of the graph, the matched node below a fresh operator
\* included, the graph is a single-rooted DAG: the root is a node of the
\* graph, no node is below itself, the inserted root of the expression has
\* the inputs the expression gives it and every other reachable node has as
\* many inputs as before.
C27_ReplacementKeepsADag ==
    (rep # None /\ rep[1].changed) =>
        /\ graph.root \in NodeIds(graph.graph)
        /\ IsDag(graph.graph)
        /\ rep[1].expr.node.tag = "OperatorNode" =>
               Len(neighbors_outgoing(graph.graph, rep[1].new))
                   = Len(rep[1].expr.inputs)
        /\ \A a \in ReachableNodes(graph) \cap NodeIds(rep[1].before.graph) :
               Len(neighbors_outgoing(graph.graph, a))
                   = Len(neighbors_outgoing(rep[1].before.graph, a))

\* The nodes the handles of an expression point to.
RECURSIVE HandlesOf(_)
HandlesOf(expr) ==
    IF expr.node.tag = "OperatorNode"
    THEN UNION {HandlesOf(expr.inputs[i]) : i \in 1..Len(expr.inputs)}
    ELSE {expr.node.handle}

\* C28: a replacement keeps input positions: where the origin was the i-th
\* input of a parent, as input_at gives it, the replacement is the i-th
\* input afterwards and the parent's other inputs are where they were; the
\* inputs of an inserted operator node are, in order, the children of its
\* expression.  (Of replacements that do not point at the origin and leave
\* a DAG.)
C28_ReplacementKeepsInputPositions ==
    (/\ rep # None /\ rep[1].changed
     /\ rep[1].origin \notin HandlesOf(rep[1].expr)
     /\ IsDag(graph.graph)) =>
        LET r == rep[1] IN
        /\ \A parent \in Parents(r.before.graph, r.origin) \ {r.origin} :
               LET node == expr_at(r.before, parent)
                   n == inputs_len(r.before, node) IN
               /\ inputs_len(graph, expr_at(graph, parent)) = n
               /\ \A idx \in 0..(n - 1) :
                      input_at(graph, expr_at(graph, parent), idx) =
                          IF input_at(r.before, node, idx) = r.origin
                          THEN r.new
                          ELSE input_at(r.before, node, idx)
        /\ r.expr.node.tag = "OperatorNode" =>
               LET node == expr_at(graph, r.new) IN
               /\ inputs_len(graph, node) = Len(r.expr.inputs)
               /\ \A idx \in 0..(Len(r.expr.inputs) - 1) :
                      r.expr.inputs[idx + 1].node.tag # "OperatorNode" =>
                          input_at(graph, node, idx)
                              = r.expr.inputs[idx + 1].node.handle

\* The edges of a graph among the nodes the root reaches, as a count.
ReachableEdgeCount(pg) ==
    LET RECURSIVE Sum(_, _)
        Sum(ids, i) ==
            IF i > Len(ids) THEN 0
            ELSE Len(pg.graph.out[ids[i]]) + Sum(ids, i + 1)
    IN  Sum(Bfs(pg.graph, pg.root), 1)

\* C29: in the plan a pass returns distinct nodes carry distinct ids,
\* bfs_iterator over it yields every node of it, and the PlanGraph built
\* from it has as many nodes and edges as the graph it was made from has
\* under its root.
C29_ReturnedPlanHasDistinctIds ==
    (pc = "done" /\ outcome[1].kind = "Ok") =>
        LET pl == outcome[1].value
            again == PlanGraph_from(pl) IN
        /\ \A p, q \in 1..Len(pl.nodes) :
               p # q => pl.nodes[p].id # pl.nodes[q].id
        /\ Range(bfs_iterator(pl)) = 1..Len(pl.nodes)
        /\ Len(Bfs(again.graph, again.root))
               = Len(Bfs(graph.graph, graph.root))
        /\ ReachableEdgeCount(again) = ReachableEdgeCount(graph)

\* The handles Binding::new(handle, pattern, optimizer).next() passes to
\* expr_at: the handle itself and, where the node matches and has as many
\* inputs as the pattern has children, those of the inputs.
RECURSIVE BindingHandles(_, _, _)
BindingHandles(pg, handle, pattern) ==
    {handle} \cup
    IF handle \notin NodeIds(pg.graph) THEN {}
    ELSE LET node == expr_at(pg, handle) IN
         IF \/ ~Matches(pattern.predict, node.operator)
            \/ pattern.children = None
         THEN {}
         ELSE IF inputs_len(pg, node) # Len(pattern.children[1]) THEN {}
         ELSE UNION {BindingHandles(pg, input_at(pg, node, i - 1),
                                    pattern.children[1][i]) :
                        i \in 1..Len(pattern.children[1])}

\* The nodes of the graph that the root reaches.
CurrentNodes == NodeIds(graph.graph) \cap Range(Bfs(graph.graph, graph.root))

\* C30: during a pass every handle that is passed to expr_at, Binding::new
\* or replace_opt_expression is a node of the graph as it is now, reachable
\* from the root: the handles still to be visited were enumerated after the
\* last replacement.
C30_HandlesReferToCurrentNodes ==
    /\ pc \in {"node", "rule"} => Range(node_ids) \subseteq CurrentNodes
    /\ pc = "rule" =>
          /\ expr_handle \in CurrentNodes
          /\ rule_idx <= Len(rules) =>
                 BindingHandles(graph, expr_handle,
                                Rule_pattern(rules[rule_idx]))
                     \subseteq CurrentNodes

\* A rule is being tried in a sweep that began after a replacement removed
\* its origin and left a node of the old sub-tree out of the root's reach.
C30_Witness ==
    /\ pc = "rule" /\ rule_idx <= Len(rules)
    /\ Firings # {}
    /\ rep # None /\ rep[1].changed
    /\ rep[1].origin \notin NodeIds(graph.graph)
    /\ NodeIds(graph.graph) \ CurrentNodes # {}

\* The parents of the PlanNode at pointer p of pl, and the input slots of
\* the nodes of pl that hold p, as a count.
PlanParents(pl, p) == {q \in Reachable(pl) : p \in Range(pl.nodes[q].inputs)}
SlotCount(pl, p) ==
    Cardinality({<<q, j>> \in Reachable(pl) \X (1..2) :
                    /\ j <= Len(pl.nodes[q].inputs)
                    /\ pl.nodes[q].inputs[j] = p})

\* The graph node that from makes of the PlanNode at pointer p of plan.
GraphNodeOf(p) == NodeIdMap(plan, bfs_iterator(plan), plan.nodes[p].id)

\* from keeps the sharing of plan: one graph node per PlanNode that the BFS
\* yields, with one incoming edge per input slot that holds it.
FromKeepsSharing ==
    /\ Cardinality(NodeIds(graph.graph)) = Len(bfs_iterator(plan))
    /\ \A p \in Reachable(plan) :
           /\ Len(graph.graph.inc[GraphNodeOf(p)]) = SlotCount(plan, p)
           /\ Cardinality(Parents(graph.graph, GraphNodeOf(p)))
                  = Cardinality(PlanParents(plan, p))

\* to_plan keeps the sharing: the returned plan has one PlanNode per node
\* of plan, held by as many parents and input slots.
ToPlanKeepsSharing ==
    /\ outcome[1].kind = "Ok"
    /\ LET pl == outcome[1].value
           order == bottom_up_node_iters(graph) IN
       /\ Len(pl.nodes) = Len(bfs_iterator(plan))
       /\ \A p \in Reachable(plan) :
              LET q == IndexIn(order, GraphNodeOf(p)) IN
              /\ SlotCount(pl, q) = SlotCount(plan, p)
              /\ Cardinality(PlanParents(pl, q))
                     = Cardinality(PlanParents(plan, p))

\* C31: sharing survives the optimizer: a PlanNode that is an input of
\* several parents of the input plan is one graph node with one incoming
\* edge per parent, the graph having as many nodes as the BFS of the plan
\* yields, and in the plan to_plan returns it is one node shared by those
\* parents, not one copy per parent.  (Of a first pass in which no rule has
\* fired.)
C31_SharingSurvives ==
    (first_outcome = None /\ Firings = {}) =>
        /\ FromKeepsSharing
        /\ pc = "done" => ToPlanKeepsSharing

(***************************************************************************)
(* Claims about the BFS iterator.                                          *)
(***************************************************************************)
IdOf(p) == plan.nodes[p].id
\* The position at which pointer p was yielded (0: not yielded).
Pos(p) ==
    IF \E i \in 1..Len(yielded) : yielded[i] = p
    THEN CHOOSE i \in 1..Len(yielded) : yielded[i] = p
    ELSE 0

\* C6: the iterator yields the root first, never two nodes with the same id,
\* and as many nodes as there are distinct ids reachable from the root.
C6_BfsCountsDistinctIds ==
    bfs_done =>
        /\ yielded[1] = plan.root
        /\ \A i, j \in 1..Len(yielded) :
               i # j => IdOf(yielded[i]) # IdOf(yielded[j])
        /\ Len(yielded) = Cardinality({IdOf(p) : p \in Reachable(plan)})

\* C8: every PlanNode reachable from the root is yielded exactly once.
C8_BfsYieldsEveryNodeOnce ==
    bfs_done =>
        \A p \in Reachable(plan) :
            Cardinality({i \in 1..Len(yielded) : yielded[i] = p}) = 1

\* C7 as stated: every node is yielded before each of its inputs, and the
\* inputs one call of next() enqueued are yielded in input-list order.
C7_BfsParentsFirstInInputOrder ==
    bfs_done =>
        /\ \A i, j \in 1..Len(yielded) :
               yielded[j] \in Range(plan.nodes[yielded[i]].inputs) => i < j
        /\ \A c \in 1..Len(enqueued) : \A a, b \in 1..Len(enqueued[c]) :
               a < b => Pos(enqueued[c][a]) < Pos(enqueued[c][b])

\* C7 as amended: every yielded node but the root comes after one of its
\* parents (the node whose expansion enqueued it), and the inputs one call of
\* next() enqueued are yielded in the reverse of their input-list order.
C7_BfsAfterEnqueuingParentReversed ==
    /\ \A j \in 2..Len(yielded) : \E i \in 1..(j - 1) :
           /\ yielded[j] \in Range(enqueued[i])
           /\ yielded[j] \in Range(plan.nodes[yielded[i]].inputs)
    /\ \A c \in 1..Len(enqueued) : \A a, b \in 1..Len(enqueued[c]) :
           (a < b /\ Pos(enqueued[c][a]) > 0 /\ Pos(enqueued[c][b]) > 0)
               => Pos(enqueued[c][a]) > Pos(enqueued[c][b])
    /\ bfs_done => \A c \in 1..Len(enqueued) :
           \A a \in 1..Len(enqueued[c]) : Pos(enqueued[c][a]) > 0

\* A finished traversal in which one node enqueued two inputs and a node was
\* yielded before one of its parents (a node shared at different depths).
C7_Witness ==
    /\ bfs_done
    /\ \E c \in 1..Len(enqueued) : Len(enqueued[c]) = 2
    /\ \E i, j \in 1..Len(yielded) :
           yielded[j] \in Range(plan.nodes[yielded[i]].inputs) /\ j < i

(***************************************************************************)
(* Claims about PlanNode equality.                                         *)
(***************************************************************************)
\* A node with its ids, and those of its descendants, erased: the operator,
\* the erased inputs in order and the three properties.
RECURSIVE Erased(_, _)
Erased(nodes, p) ==
    <<nodes[p].operator,
      [i \in 1..Len(nodes[p].inputs) |-> Erased(nodes, nodes[p].inputs[i])],
      nodes[p].logical_prop, nodes[p].stat, nodes[p].physical_props>>

IdsUnder(pl) == {pl.nodes[p].id : p \in Reachable(pl)}

\* C9: two PlanNodes compare equal exactly when they agree on the operator,
\* the inputs (recursively, position by position) and the three properties,
\* whatever ids they and their descendants carry.
C9_EqIsStructuralIgnoringIds ==
    eq_result # None =>
        (eq_result[1] <=>
            Erased(plan.nodes, plan.root) = Erased(other[1].nodes, other[1].root))

\* Two nodes with inputs compared equal although no id of the one tree occurs
\* in the other.
C9_Witness ==
    /\ eq_result = Some(TRUE)
    /\ plan.nodes[plan.root].inputs # <<>>
    /\ IdsUnder(plan) \cap IdsUnder(other[1]) = {}

=============================================================================
